---- MODULE Spec2Model ----
(***************************************************************************)
(* Verification model of the langgraph-rs conformance harness              *)
(* (tests/validation/compare_outputs.py) and of the fixture workflows it   *)
(* runs (tests/fixtures/*.py).                                             *)
(*                                                                         *)
(* Python values are modelled as records of one shape, tagged by type.     *)
(* A number is the exact quantity n + f * 1e-9 with 0 <= f < Unit, so that *)
(* the default tolerance 1e-6 is 1000 units of the fractional part; NaN,   *)
(* infinities and floating-point rounding are outside the model.           *)
(***************************************************************************)
EXTENDS Integers, Sequences, FiniteSets, TLC

VARIABLES
    pc,             \* position of the running routine
    workflow,       \* the workflow module named on the command line
    binary_exists,  \* rust_binary.exists()
    py_initial,     \* the state run_python_workflow hands to graph.invoke
    python_result,  \* main's python_result / compare_states' python_state
    cand,           \* the candidate child process of subprocess.run
    rust_result,    \* main's rust_result / compare_states' rust_state
    cmp,            \* what the last compare_states call returned and printed
    report,         \* the verdict line main printed
    exit_code,      \* the process exit status, -1 while running
    events,         \* history of the harness's externally visible steps
    run,            \* one graph under construction / one invocation of it
    run2,           \* a second invocation of the same compiled graph
    generator       \* the process-wide generator behind random.random()

vars == <<pc, workflow, binary_exists, py_initial, python_result, cand,
          rust_result, cmp, report, exit_code, events, run, run2, generator>>

(***************************************************************************)
(* Bounds of the model.                                                    *)
(***************************************************************************)
MaxKeys == 2        \* top-level fields of a compared state
MaxLen == 2         \* elements of a compared list

(***************************************************************************)
(* Python values.                                                          *)
(***************************************************************************)
\* tolerance: float = 1e-6, in units of 1e-9
Tolerance == 1000

\* 1.0 in units of 1e-9
Unit == Tolerance * 1000000

\* the number n + f * 1e-9
Frac(n, f) == [t |-> "num", n |-> n, f |-> f, s |-> "", keys |-> <<>>,
               items |-> <<>>]

Num(n) == Frac(n, 0)

\* bool is a subclass of int: True is 1 and False is 0 in arithmetic and ==
Bool(b) == [t |-> "bool", n |-> IF b THEN 1 ELSE 0, f |-> 0, s |-> "",
            keys |-> <<>>, items |-> <<>>]

Str(s) == [t |-> "str", n |-> 0, f |-> 0, s |-> s, keys |-> <<>>,
           items |-> <<>>]

None == [t |-> "none", n |-> 0, f |-> 0, s |-> "", keys |-> <<>>,
         items |-> <<>>]

List(items) == [t |-> "list", n |-> 0, f |-> 0, s |-> "", keys |-> <<>>,
                items |-> items]

\* a dict keeps insertion order: keys[i] maps to items[i]
Dict(keys, items) == [t |-> "dict", n |-> 0, f |-> 0, s |-> "", keys |-> keys,
                      items |-> items]

EmptyDict == Dict(<<>>, <<>>)

\* a variable that holds no Python value yet
Undef == [t |-> "undef", n |-> 0, f |-> 0, s |-> "", keys |-> <<>>,
          items |-> <<>>]

\* no graph has been built
NoRun == [st |-> "none"]

\* the generator before any module has drawn from it
NoGenerator == [stream |-> <<>>, drawn |-> 0]

Range(seq) == {seq[i] : i \in 1..Len(seq)}

KeySet(d) == Range(d.keys)

Has(d, k) == k \in KeySet(d)

IndexOf(d, k) == CHOOSE i \in 1..Len(d.keys) : d.keys[i] = k

\* d[k] for a key that is present
Get(d, k) == d.items[IndexOf(d, k)]

\* d[k] = v: an existing key keeps its position, a new key goes last
Set(d, k, v) ==
    IF Has(d, k)
    THEN [d EXCEPT !.items[IndexOf(d, k)] = v]
    ELSE [d EXCEPT !.keys = Append(@, k), !.items = Append(@, v)]

Abs(x) == IF x < 0 THEN -x ELSE x

\* AbsDiffExceeds without abs(): a - b > tolerance
AbsDiffExceeds_Signed(a, b, tolerance) ==
    LET dn == a.n - b.n
    IN IF dn >= 2 THEN TRUE
       ELSE IF dn <= -2 THEN FALSE
       ELSE dn * Unit + (a.f - b.f) > tolerance

\* abs(a - b) > tolerance for numbers a and b and a tolerance below 1.0:
\* whole parts two or more apart differ by more than 1.0
AbsDiffExceeds(a, b, tolerance) ==
    LET dn == a.n - b.n
    IN IF dn >= 2 \/ dn <= -2 THEN TRUE
       ELSE Abs(dn * Unit + (a.f - b.f)) > tolerance

\* isinstance(v, (int, float)): true of bool values too
IsNumeric(v) == v.t \in {"num", "bool"}

IsList(v) == v.t = "list"

\* Python's == on JSON-shaped values
RECURSIVE PyEq(_, _)
PyEq(a, b) ==
    IF IsNumeric(a) /\ IsNumeric(b) THEN a.n = b.n /\ a.f = b.f
    ELSE IF a.t # b.t THEN FALSE
    ELSE IF a.t = "str" THEN a.s = b.s /\ a.items = b.items
    ELSE IF a.t = "list"
         THEN /\ Len(a.items) = Len(b.items)
              /\ \A i \in 1..Len(a.items) : PyEq(a.items[i], b.items[i])
    ELSE IF a.t = "dict"
         THEN /\ KeySet(a) = KeySet(b)
              /\ \A k \in KeySet(a) : PyEq(Get(a, k), Get(b, k))
    ELSE TRUE

(***************************************************************************)
(* compare_states (compare_outputs.py:51-78).                              *)
(* A call yields the returned verdict, the lines it printed and the keys   *)
(* whose values the loop read (lines 58-59), in the order it read them.    *)
(***************************************************************************)
Diag(kind, key, index, expected, actual) ==
    [kind |-> kind, key |-> key, index |-> index,
     expected |-> expected, actual |-> actual]

StrList(keys) == List([i \in 1..Len(keys) |-> Str(keys[i])])

\* print(f"Key mismatch: Python={python_state.keys()}, Rust={rust_state.keys()}")
KeyMismatch(python_state, rust_state) ==
    Diag("Key mismatch", "", -1, StrList(python_state.keys),
         StrList(rust_state.keys))

FieldOk == [ok |-> TRUE, printed |-> <<>>]

FieldFail(d) == [ok |-> FALSE, printed |-> <<d>>]

\* CompareNumeric with the comparison written >= instead of >
CompareNumeric_Ge(key, py_val, rs_val, tolerance) ==
    IF AbsDiffExceeds(py_val, rs_val, tolerance - 1)
    THEN FieldFail(Diag("Numeric mismatch", key, -1, py_val, rs_val))
    ELSE FieldOk

\* lines 63-65
CompareNumeric(key, py_val, rs_val, tolerance) ==
    IF AbsDiffExceeds(py_val, rs_val, tolerance)
    THEN FieldFail(Diag("Numeric mismatch", key, -1, py_val, rs_val))
    ELSE FieldOk

\* lines 67-73
CompareList(key, py_val, rs_val) ==
    IF Len(py_val.items) # Len(rs_val.items)
    THEN FieldFail(Diag("List length mismatch", key, -1,
                        Num(Len(py_val.items)), Num(Len(rs_val.items))))
    ELSE LET bad == {i \in 1..Len(py_val.items) :
                        ~PyEq(py_val.items[i], rs_val.items[i])}
         IN IF bad = {} THEN FieldOk
            ELSE LET i == CHOOSE j \in bad : \A m \in bad : j <= m
                 IN FieldFail(Diag("List element mismatch", key, i - 1,
                                   py_val.items[i], rs_val.items[i]))

\* lines 74-76
CompareOther(key, py_val, rs_val) ==
    IF ~PyEq(py_val, rs_val)
    THEN FieldFail(Diag("Value mismatch", key, -1, py_val, rs_val))
    ELSE FieldOk

\* the body of the loop for one key, lines 58-76
CompareField(key, py_val, rs_val, tolerance) ==
    IF IsNumeric(py_val) /\ IsNumeric(rs_val)
    THEN CompareNumeric(key, py_val, rs_val, tolerance)
    ELSE IF IsList(py_val) /\ IsList(rs_val)
    THEN CompareList(key, py_val, rs_val)
    ELSE CompareOther(key, py_val, rs_val)

\* CompareLoop walking the keys in the candidate's order: for key in rust_state
RECURSIVE CompareLoop_RustOrder(_, _, _, _, _)
CompareLoop_RustOrder(python_state, rust_state, tolerance, i, examined) ==
    IF i > Len(rust_state.keys)
    THEN [ok |-> TRUE, printed |-> <<>>, examined |-> examined]
    ELSE LET key == rust_state.keys[i]
             r == CompareField(key, Get(python_state, key),
                               rust_state.items[i], tolerance)
         IN IF r.ok
            THEN CompareLoop_RustOrder(python_state, rust_state, tolerance,
                                       i + 1, Append(examined, key))
            ELSE [ok |-> FALSE, printed |-> r.printed,
                  examined |-> Append(examined, key)]

\* for key in python_state, from the i-th key on
RECURSIVE CompareLoop(_, _, _, _, _)
CompareLoop(python_state, rust_state, tolerance, i, examined) ==
    IF i > Len(python_state.keys)
    THEN [ok |-> TRUE, printed |-> <<>>, examined |-> examined]
    ELSE LET key == python_state.keys[i]
             r == CompareField(key, python_state.items[i],
                               Get(rust_state, key), tolerance)
         IN IF r.ok
            THEN CompareLoop(python_state, rust_state, tolerance, i + 1,
                             Append(examined, key))
            ELSE [ok |-> FALSE, printed |-> r.printed,
                  examined |-> Append(examined, key)]

\* KeysDiffer looking only for keys the candidate lacks
KeysDiffer_MissingOnly(python_state, rust_state) ==
    ~(KeySet(python_state) \subseteq KeySet(rust_state))

\* lines 53-55
KeysDiffer(python_state, rust_state) ==
    KeySet(python_state) # KeySet(rust_state)

compare_states(python_state, rust_state, tolerance) ==
    IF KeysDiffer(python_state, rust_state)
    THEN [ok |-> FALSE, printed |-> <<KeyMismatch(python_state, rust_state)>>,
          examined |-> <<>>]
    ELSE CompareLoop(python_state, rust_state, tolerance, 1, <<>>)

NoCmp == [ok |-> FALSE, printed |-> <<>>, examined |-> <<>>]

(***************************************************************************)
(* Bounded sets of states handed to compare_states.                        *)
(***************************************************************************)
KeyNames == <<"a", "b", "c", "d">>

TopKeys == {KeyNames[i] : i \in 1..MaxKeys}

\* the sequences of at most n distinct elements of S
RECURSIVE Arrangements(_, _)
Arrangements(S, n) ==
    IF n = 0 THEN {<<>>}
    ELSE LET shorter == Arrangements(S, n - 1)
         IN shorter \cup {Append(q, x) : q \in {p \in shorter : Len(p) = n - 1},
                                          x \in S}

DistinctSeqs(S, n) ==
    {q \in Arrangements(S, n) : \A i, j \in 1..Len(q) : i # j => q[i] # q[j]}

\* the sequences over S of length exactly n, and of length at most n
Tuples(S, n) == [1..n -> S]

SeqsUpTo(S, n) == UNION {Tuples(S, m) : m \in 0..n}

Nums ==
    {Num(0), Frac(0, 1), Frac(0, Tolerance), Frac(0, Tolerance + 1), Num(1)}

Leaves == Nums \cup {Bool(TRUE), Bool(FALSE), Str("x"), Str("y"), None}

NestedDicts ==
    {EmptyDict, Dict(<<"k">>, <<Num(0)>>), Dict(<<"k">>, <<Frac(0, 1)>>),
     Dict(<<"k">>, <<Num(1)>>), Dict(<<"k">>, <<Str("x")>>),
     Dict(<<"j">>, <<Num(0)>>),
     Dict(<<"k", "j">>, <<Num(0), Num(0)>>),
     Dict(<<"j", "k">>, <<Num(0), Num(0)>>),
     Dict(<<"k">>, <<List(<<Num(0)>>)>>),
     Dict(<<"k">>, <<List(<<Frac(0, 1)>>)>>)}

ListElems ==
    {Num(0), Frac(0, 1), Num(1), Bool(TRUE), Str("x"),
     List(<<Num(0)>>), List(<<Frac(0, 1)>>),
     Dict(<<"k">>, <<Num(0)>>), Dict(<<"k">>, <<Frac(0, 1)>>)}

Lists == {List(q) : q \in SeqsUpTo(ListElems, MaxLen)}

RichVals == Leaves \cup Lists \cup NestedDicts

SimpleVals == {Num(0), Frac(0, Tolerance + 1), Str("x")}

\* states of up to MaxKeys scalar fields, in every key order
SimpleStates ==
    UNION {{Dict(ks, vs) : vs \in Tuples(SimpleVals, Len(ks))} :
           ks \in DistinctSeqs(TopKeys, MaxKeys)}

\* states of one field holding any value of the bounded universe
RichStates == {Dict(<<"a">>, <<v>>) : v \in RichVals}

CmpStates == SimpleStates \cup RichStates

(***************************************************************************)
(* Specification of compare_states on its own: Init draws the two states,  *)
(* the one action applies the function.                                    *)
(***************************************************************************)
CmpInit ==
    /\ pc = "cmp_call"
    /\ workflow = "<none>"
    /\ binary_exists = FALSE
    /\ py_initial = Undef
    /\ python_result \in CmpStates
    /\ cand = [st |-> "none"]
    /\ rust_result \in CmpStates
    /\ cmp = NoCmp
    /\ report = "<none>"
    /\ exit_code = -1
    /\ events = <<>>
    /\ run = NoRun
    /\ run2 = NoRun
    /\ generator = NoGenerator

CmpCall ==
    /\ pc = "cmp_call"
    /\ cmp' = compare_states(python_result, rust_result, Tolerance)
    /\ pc' = "cmp_done"
    /\ UNCHANGED <<run2, generator, workflow, binary_exists, py_initial,
                   python_result, cand, rust_result, report, exit_code,
                   events, run>>

CmpNext == CmpCall

SpecCmp == CmpInit /\ [][CmpNext]_vars

(***************************************************************************)
(* Node functions of the fixture workflows.  A call yields the returned    *)
(* state, or the exception it raised.  A key that is present holds a value *)
(* of the type the fixture's TypedDict declares; a missing key raises      *)
(* KeyError at the statement that first reads it.                          *)
(***************************************************************************)
Ok(state) == [raised |-> FALSE, exc |-> "", state |-> state]

Raise(exc) == [raised |-> TRUE, exc |-> exc, state |-> Undef]

\* v + k for an int k
AddInt(v, k) == Frac(v.n + k, v.f)

\* a + b
AddNum(a, b) ==
    LET f == a.f + b.f
    IN IF f >= Unit THEN Frac(a.n + b.n + 1, f - Unit) ELSE Frac(a.n + b.n, f)

\* a < b
LessThan(a, b) == a.n < b.n \/ (a.n = b.n /\ a.f < b.f)

\* lst.append(v)
ListAppend(lst, v) == List(Append(lst.items, v))

\* an f-string: the template with the values formatted into it
Fmt(template, args) ==
    [t |-> "str", n |-> 0, f |-> 0, s |-> template, keys |-> <<>>,
     items |-> args]

\* state[key].append(v), KeyError when key is missing
AppendTo(state, key, v) ==
    IF ~Has(state, key) THEN Raise("KeyError")
    ELSE Ok(Set(state, key, ListAppend(Get(state, key), v)))

\* state["counter"] += 1; state["messages"].append(msg)
CountAndLog(state, msg) ==
    IF ~Has(state, "counter") THEN Raise("KeyError")
    ELSE AppendTo(Set(state, "counter", AddInt(Get(state, "counter"), 1)),
                  "messages", Str(msg))

\* linear_workflow.py
node_a(state) == CountAndLog(state, "Node A executed")

\* node_b without the increment of the counter
node_b_NoCount(state) == AppendTo(state, "messages", Str("Node B executed"))

node_b(state) == CountAndLog(state, "Node B executed")

node_c(state) == CountAndLog(state, "Node C executed")

\* what a call of a routing function leaves: the label it returned and the
\* state object it was handed, or the exception it raised
Route(l, state) == [raised |-> FALSE, exc |-> "", label |-> l, state |-> state]

RaiseInRouter(exc) ==
    [raised |-> TRUE, exc |-> exc, label |-> "", state |-> Undef]

\* v * k and v ** 2 for an int v
Times(v, k) == Num(v.n * k)

Square(v) == Num(v.n * v.n)

\* loop_workflow.py
initialize(state) ==
    AppendTo(Set(Set(state, "iteration", Num(0)), "accumulated_value", Num(0)),
             "history", Str("Initialized"))

loop_body(state) ==
    IF ~Has(state, "iteration") THEN Raise("KeyError")
    ELSE LET s1 == Set(state, "iteration", AddInt(Get(state, "iteration"), 1))
         IN IF ~Has(s1, "accumulated_value") THEN Raise("KeyError")
            ELSE LET s2 == Set(s1, "accumulated_value",
                               AddNum(Get(s1, "accumulated_value"),
                                      Get(s1, "iteration")))
                 IN AppendTo(s2, "history",
                             Fmt("Iteration {}: accumulated={}",
                                 <<Get(s2, "iteration"),
                                   Get(s2, "accumulated_value")>>))

\* check_continue looping while iteration <= max_iterations
check_continue_Le(state) ==
    IF ~Has(state, "iteration") \/ ~Has(state, "max_iterations")
    THEN RaiseInRouter("KeyError")
    ELSE IF ~LessThan(Get(state, "max_iterations"), Get(state, "iteration"))
         THEN Route("loop_body", state)
         ELSE Route("finalize", state)

\* check_continue with the two labels exchanged
check_continue_Inverted(state) ==
    IF ~Has(state, "iteration") \/ ~Has(state, "max_iterations")
    THEN RaiseInRouter("KeyError")
    ELSE IF LessThan(Get(state, "iteration"), Get(state, "max_iterations"))
         THEN Route("finalize", state)
         ELSE Route("loop_body", state)

check_continue(state) ==
    IF ~Has(state, "iteration") \/ ~Has(state, "max_iterations")
    THEN RaiseInRouter("KeyError")
    ELSE IF LessThan(Get(state, "iteration"), Get(state, "max_iterations"))
         THEN Route("loop_body", state)
         ELSE Route("finalize", state)

loop_finalize(state) ==
    IF ~Has(state, "history") \/ ~Has(state, "iteration") THEN Raise("KeyError")
    ELSE AppendTo(state, "history",
                  Fmt("Completed {} iterations", <<Get(state, "iteration")>>))

\* conditional_workflow.py
start_node(state) == AppendTo(state, "path_taken", Str("start"))

\* state["should_continue"] = state["value"] < 100
SetShouldContinue(state) ==
    Set(state, "should_continue", Bool(LessThan(Get(state, "value"), Num(100))))

\* process_high with should_continue computed before the value is doubled
process_high_FlagFirst(state) ==
    LET r == AppendTo(state, "path_taken", Str("high"))
    IN IF r.raised THEN r
       ELSE IF ~Has(r.state, "value") THEN Raise("KeyError")
       ELSE Ok(Set(SetShouldContinue(r.state), "value",
                   Times(Get(r.state, "value"), 2)))

process_high(state) ==
    LET r == AppendTo(state, "path_taken", Str("high"))
    IN IF r.raised THEN r
       ELSE IF ~Has(r.state, "value") THEN Raise("KeyError")
       ELSE Ok(SetShouldContinue(
                   Set(r.state, "value", Times(Get(r.state, "value"), 2))))

process_low(state) ==
    LET r == AppendTo(state, "path_taken", Str("low"))
    IN IF r.raised THEN r
       ELSE IF ~Has(r.state, "value") THEN Raise("KeyError")
       ELSE Ok(SetShouldContinue(
                   Set(r.state, "value", AddInt(Get(r.state, "value"), 10))))

end_node(state) == AppendTo(state, "path_taken", Str("end"))

\* route_based_on_value with the threshold written > 50
route_based_on_value_Gt(state) ==
    IF ~Has(state, "value") THEN RaiseInRouter("KeyError")
    ELSE IF LessThan(Num(50), Get(state, "value"))
         THEN Route("high", state) ELSE Route("low", state)

route_based_on_value(state) ==
    IF ~Has(state, "value") THEN RaiseInRouter("KeyError")
    ELSE IF ~LessThan(Get(state, "value"), Num(50))
         THEN Route("high", state) ELSE Route("low", state)

should_continue(state) ==
    IF ~Has(state, "should_continue") THEN RaiseInRouter("KeyError")
    ELSE IF Get(state, "should_continue").n # 0
         THEN Route("start", state) ELSE Route("end", state)

\* multi_path_workflow.py
start(state) == Ok(Set(state, "chosen_path", Str("unknown")))

\* router with the first threshold written <= 33
router_Le(state) ==
    IF ~Has(state, "input_value") THEN RaiseInRouter("KeyError")
    ELSE LET value == Get(state, "input_value")
         IN IF LessThan(value, Num(34)) THEN Route("path_a", state)
            ELSE IF LessThan(value, Num(66)) THEN Route("path_b", state)
            ELSE Route("path_c", state)

router(state) ==
    IF ~Has(state, "input_value") THEN RaiseInRouter("KeyError")
    ELSE LET value == Get(state, "input_value")
         IN IF LessThan(value, Num(33)) THEN Route("path_a", state)
            ELSE IF LessThan(value, Num(66)) THEN Route("path_b", state)
            ELSE Route("path_c", state)

path_a(state) ==
    IF ~Has(state, "input_value") THEN Raise("KeyError")
    ELSE Ok(Set(Set(state, "path_a_result",
                    Times(Get(state, "input_value"), 2)),
                "chosen_path", Str("A")))

path_b(state) ==
    IF ~Has(state, "input_value") THEN Raise("KeyError")
    ELSE Ok(Set(Set(state, "path_b_result",
                    AddInt(Get(state, "input_value"), 100)),
                "chosen_path", Str("B")))

path_c(state) ==
    IF ~Has(state, "input_value") THEN Raise("KeyError")
    ELSE Ok(Set(Set(state, "path_c_result", Square(Get(state, "input_value"))),
                "chosen_path", Str("C")))

merge(state) ==
    IF \/ ~Has(state, "path_a_result") \/ ~Has(state, "path_b_result")
       \/ ~Has(state, "path_c_result")
    THEN Raise("KeyError")
    ELSE Ok(Set(state, "final_result",
                AddNum(AddNum(Get(state, "path_a_result"),
                              Get(state, "path_b_result")),
                       Get(state, "path_c_result"))))

\* complex_types.py
\* state[outer][inner] = v for a dict state[outer] that is present
SetIn(state, outer, inner, v) ==
    Set(state, outer, Set(Get(state, outer), inner, v))

init_node(state) ==
    IF ~Has(state, "metadata") THEN Raise("KeyError")
    ELSE Ok(SetIn(SetIn(state, "metadata", "initialized", Bool(TRUE)),
                  "metadata", "version", Str("1.0")))

\* the loop of process_users from the i-th user on
RECURSIVE ProcessUsersFrom(_, _)
ProcessUsersFrom(state, i) ==
    IF i > Len(Get(state, "users").items) THEN Ok(state)
    ELSE LET users == Get(state, "users")
             user == Set(users.items[i], "processed", Bool(TRUE))
             s1 == Set(state, "users",
                       [users EXCEPT !.items[i] = user])
         IN IF ~Has(s1, "scores") \/ ~Has(user, "name") THEN Raise("KeyError")
            ELSE ProcessUsersFrom(
                     SetIn(s1, "scores", Get(user, "name").s, Num(0)), i + 1)

process_users(state) ==
    IF ~Has(state, "users") THEN Raise("KeyError")
    ELSE LET r == ProcessUsersFrom(state, 1)
         IN IF r.raised THEN r
            ELSE IF Len(Get(r.state, "users").items) > 0
                 THEN Ok(Set(r.state, "current_user",
                             Get(r.state, "users").items[1]))
                 ELSE r

\* float(age * 1.5) for an int age
TimesOneAndHalf(age) ==
    Frac((3 * age.n) \div 2, IF (3 * age.n) % 2 = 1 THEN Unit \div 2 ELSE 0)

\* user.get("age", 0)
AgeOf(user) == IF Has(user, "age") THEN Get(user, "age") ELSE Num(0)

\* the loop of calculate_scores from the i-th user on
RECURSIVE CalculateScoresFrom(_, _)
CalculateScoresFrom(state, i) ==
    IF i > Len(Get(state, "users").items) THEN Ok(state)
    ELSE LET user == Get(state, "users").items[i]
         IN IF ~Has(user, "name") \/ ~Has(state, "scores")
            THEN Raise("KeyError")
            ELSE CalculateScoresFrom(
                     SetIn(state, "scores", Get(user, "name").s,
                           TimesOneAndHalf(AgeOf(user))), i + 1)

calculate_scores(state) ==
    IF ~Has(state, "users") THEN Raise("KeyError")
    ELSE LET r == CalculateScoresFrom(state, 1)
         IN IF r.raised THEN r
            ELSE IF ~Has(r.state, "flags") THEN Raise("KeyError")
            ELSE Ok(SetIn(r.state, "flags", "scores_calculated", Bool(TRUE)))

\* sum(values)
RECURSIVE SumFrom(_, _)
SumFrom(values, i) ==
    IF i > Len(values) THEN Num(0) ELSE AddNum(values[i], SumFrom(values, i + 1))

\* total / k for an int k >= 1, to 1e-9
DivideBy(total, k) ==
    LET r == total.n % k
    IN Frac(total.n \div k,
            r * (Unit \div k) + (r * (Unit % k) + total.f) \div k)

complex_finalize(state) ==
    IF ~Has(state, "users") \/ ~Has(state, "metadata") \/ ~Has(state, "scores")
    THEN Raise("KeyError")
    ELSE LET s1 == SetIn(state, "metadata", "total_users",
                         Num(Len(Get(state, "users").items)))
             scores == Get(s1, "scores").items
             avg == IF Len(scores) > 0
                    THEN DivideBy(SumFrom(scores, 1), Len(scores))
                    ELSE Num(0)
             s2 == SetIn(s1, "metadata", "avg_score", avg)
         IN IF ~Has(s2, "flags") THEN Raise("KeyError")
            ELSE Ok(SetIn(s2, "flags", "complete", Bool(TRUE)))

(***************************************************************************)
(* Python operations the example workflows use.                            *)
(***************************************************************************)
\* state[k1] = v1; state[k2] = v2; ... for writes <<<<k1, v1>>, <<k2, v2>>>>
RECURSIVE Assign(_, _)
Assign(state, writes) ==
    IF writes = <<>> THEN state
    ELSE Assign(Set(state, writes[1][1], writes[1][2]), Tail(writes))

\* bool(v)
Truthy(v) ==
    CASE v.t \in {"num", "bool"} -> v.n # 0 \/ v.f # 0
      [] v.t = "str" -> v.s # "" \/ v.items # <<>>
      [] v.t \in {"list", "dict"} -> v.items # <<>>
      [] OTHER -> FALSE

\* the floats k/10 and k/100 for 0 <= k
Tenths(k) == Frac(k \div 10, (k % 10) * (Unit \div 10))

Hundredths(k) == Frac(k \div 100, (k % 100) * (Unit \div 100))

\* a <= b
AtMost(a, b) == ~LessThan(b, a)

\* the i-th character of a string
Char(s, i) == SubSeq(s, i, i)

\* w in s, for strings
Contains(s, w) ==
    \E i \in 1..(Len(s) - Len(w) + 1) : SubSeq(s, i, i + Len(w) - 1) = w

\* s.startswith(p)
StartsWith(s, p) == Len(p) <= Len(s) /\ SubSeq(s, 1, Len(p)) = p

\* any(word in s for word in words)
AnyIn(words, s) == \E i \in 1..Len(words) : Contains(s, words[i])

Uppers == "ABCDEFGHIJKLMNOPQRSTUVWXYZ"

Lowers == "abcdefghijklmnopqrstuvwxyz"

IsIn(alphabet, c) == \E i \in 1..Len(alphabet) : Char(alphabet, i) = c

PositionIn(alphabet, c) ==
    CHOOSE i \in 1..Len(alphabet) : Char(alphabet, i) = c

LowerChar(c) ==
    IF IsIn(Uppers, c) THEN Char(Lowers, PositionIn(Uppers, c)) ELSE c

UpperChar(c) ==
    IF IsIn(Lowers, c) THEN Char(Uppers, PositionIn(Lowers, c)) ELSE c

\* s.lower(), one half of the text after the other
RECURSIVE Lower(_)
Lower(s) ==
    IF Len(s) <= 1 THEN LowerChar(s)
    ELSE Lower(SubSeq(s, 1, Len(s) \div 2))
         \o Lower(SubSeq(s, Len(s) \div 2 + 1, Len(s)))

\* lst.count(v)
Count(lst, v) ==
    Cardinality({i \in 1..Len(lst.items) : PyEq(lst.items[i], v)})

\* v in lst, for a list of literals
InList(v, literals) == \E i \in 1..Len(literals) : v = Str(literals[i])

(***************************************************************************)
(* Node and routing functions of the example workflows.  The examples are  *)
(* invoked on states that hold every field their TypedDict declares.  A    *)
(* function that reads a clock, a random source, a hash or a fresh id has  *)
(* one outcome for each value it may read.                                 *)
(***************************************************************************)
\* simple_workflow.py
simple_start_node(state) ==
    LET r == AppendTo(state, "messages", Str("Starting workflow"))
    IN Ok(Assign(r.state, <<<<"counter", Num(0)>>,
                            <<"next_action", Str("process")>>>>))

process_node(state) ==
    LET s1 == Set(state, "counter", AddInt(Get(state, "counter"), 1))
        s2 == AppendTo(s1, "messages",
                       Fmt("Processing step {}", <<Get(s1, "counter")>>)).state
    IN Ok(Set(s2, "next_action",
              IF AtMost(Num(3), Get(s2, "counter")) THEN Str("end")
              ELSE Str("process")))

simple_end_node(state) == AppendTo(state, "messages", Str("Workflow complete"))

\* state.get("next_action", "end")
route_next(state) ==
    IF Has(state, "next_action") THEN Route(Get(state, "next_action").s, state)
    ELSE Route("end", state)

\* chatbot_with_fallback.py
Message(state) == Lower(Get(state, "user_message").s)

detect_intent(state) ==
    LET message == Message(state)
    IN IF AnyIn(<<"hello", "hi", "hey">>, message)
       THEN Ok(Assign(state, <<<<"intent", Str("greeting")>>,
                               <<"confidence", Tenths(9)>>>>))
       ELSE IF AnyIn(<<"what", "how", "why", "when", "where", "who">>, message)
       THEN Ok(Assign(state, <<<<"intent", Str("question")>>,
                               <<"confidence", Tenths(8)>>>>))
       ELSE IF AnyIn(<<"please", "can you", "could you">>, message)
       THEN Ok(Assign(state, <<<<"intent", Str("command")>>,
                               <<"confidence", Tenths(7)>>>>))
       ELSE Ok(Assign(state, <<<<"intent", Str("unknown")>>,
                               <<"confidence", Tenths(3)>>>>))

\* responses[len(state["conversation_history"]) % len(responses)]
PickByHistory(state, responses) ==
    Str(responses[(Len(Get(state, "conversation_history").items)
                   % Len(responses)) + 1])

handle_greeting(state) ==
    Ok(Set(state, "response",
           PickByHistory(state, <<"Hello! How can I help you today?",
                                  "Hi there! What can I do for you?",
                                  "Hey! I'm here to assist you.">>)))

\* the else branch of handle_question and handle_command
NotRecognized(state) ==
    Ok(Assign(state, <<<<"confidence", Tenths(4)>>, <<"response", Str("")>>>>))

handle_question(state) ==
    LET message == Message(state)
    IN IF Contains(message, "hours") \/ Contains(message, "open")
       THEN Ok(Assign(state,
                 <<<<"response",
                     Str("We're open Monday-Friday, 9 AM to 5 PM.")>>,
                   <<"context", Str("hours")>>>>))
       ELSE IF Contains(message, "price") \/ Contains(message, "cost")
       THEN Ok(Assign(state,
                 <<<<"response",
                     Str("Our pricing starts at $10/month. Would you like more details?")>>,
                   <<"context", Str("pricing")>>>>))
       ELSE IF Contains(message, "support") \/ Contains(message, "help")
       THEN Ok(Assign(state,
                 <<<<"response",
                     Str("I'm here to help! You can also email support@example.com.")>>,
                   <<"context", Str("support")>>>>))
       ELSE NotRecognized(state)

handle_command(state) ==
    LET message == Message(state)
    IN IF Contains(message, "cancel") \/ Contains(message, "refund")
       THEN Ok(Assign(state,
                 <<<<"response",
                     Str("I can help with that. Let me transfer you to our billing team.")>>,
                   <<"escalate_to_human", Bool(TRUE)>>>>))
       ELSE IF Contains(message, "update") /\ Contains(message, "email")
       THEN Ok(Assign(state,
                 <<<<"response",
                     Str("To update your email, please go to Settings > Account.")>>,
                   <<"context", Str("account_update")>>>>))
       ELSE IF Contains(message, "reset") /\ Contains(message, "password")
       THEN Ok(Assign(state,
                 <<<<"response",
                     Str("I'll send you a password reset link. Check your email in a moment.")>>,
                   <<"context", Str("password_reset")>>>>))
       ELSE NotRecognized(state)

fallback_response(state) ==
    LET s1 == Assign(state,
                <<<<"fallback_triggered", Bool(TRUE)>>,
                  <<"response",
                    PickByHistory(state,
                      <<"I'm not sure I understand. Could you rephrase that?",
                        "I didn't quite get that. Can you provide more details?",
                        "Hmm, I'm having trouble with that request. Can you try asking differently?">>)>>>>)
    IN IF Count(Get(state, "conversation_history"), Str("fallback")) >= 2
       THEN Ok(Assign(s1,
                 <<<<"escalate_to_human", Bool(TRUE)>>,
                   <<"response",
                     Str(Get(s1, "response").s
                         \o " Would you like to speak with a human agent?")>>>>))
       ELSE Ok(s1)

\* route_after_intent without the confidence test of lines 122-123
route_after_intent_NoFallback(state) ==
    Route(Get(state, "intent").s, state)

route_after_intent(state) ==
    IF LessThan(Get(state, "confidence"), Tenths(5))
    THEN Route("fallback", state)
    ELSE Route(Get(state, "intent").s, state)

\* route_after_response with the confidence test written < 0.4
route_after_response_Below04(state) ==
    IF PyEq(Get(state, "response"), Str(""))
       /\ LessThan(Get(state, "confidence"), Tenths(4))
    THEN Route("fallback", state)
    ELSE Route("__end__", state)

route_after_response(state) ==
    IF PyEq(Get(state, "response"), Str(""))
       /\ LessThan(Get(state, "confidence"), Tenths(6))
    THEN Route("fallback", state)
    ELSE Route("__end__", state)

\* api_router_with_retry.py
route_request(state) ==
    LET path == Get(state, "request_path").s
    IN Ok(Set(state, "target_service",
              IF StartsWith(path, "/api/users") THEN Str("user_service")
              ELSE IF StartsWith(path, "/api/products")
              THEN Str("product_service")
              ELSE IF StartsWith(path, "/api/orders") THEN Str("order_service")
              ELSE Str("unknown")))

check_cache(state) ==
    LET path == Get(state, "request_path").s
    IN IF PyEq(Get(state, "request_method"), Str("GET"))
          /\ (Contains(path, "list") \/ Contains(path, "get"))
       THEN Ok(Assign(state,
                 <<<<"use_cache", Bool(TRUE)>>,
                   <<"response_status", Num(200)>>,
                   <<"response_body",
                     Fmt("{{\"cached\": true, \"service\": \"{state['target_service']}\"}}",
                         <<Get(state, "target_service")>>)>>>>))
       ELSE Ok(Set(state, "use_cache", Bool(FALSE)))

\* lines 70-71 and 83-84
PrimarySucceeds(state) ==
    Ok(Assign(state,
         <<<<"response_status", Num(200)>>,
           <<"response_body",
             Fmt("{{\"success\": true, \"service\": \"{service}\"}}",
                 <<Get(state, "target_service")>>)>>>>))

\* random is the value random.random() returns at line 79
call_primary_service(state, random) ==
    IF LessThan(Num(0), Get(state, "retry_count")) THEN PrimarySucceeds(state)
    ELSE IF Contains(Get(state, "target_service").s, "unknown")
    THEN Ok(Assign(state, <<<<"response_status", Num(404)>>,
                            <<"error_message", Str("Service not found")>>>>))
    ELSE IF LessThan(Tenths(9), random)
    THEN Ok(Assign(state,
              <<<<"response_status", Num(500)>>,
                <<"error_message", Str("Service temporarily unavailable")>>>>))
    ELSE PrimarySucceeds(state)

\* check_circuit_breaker with the test written retry_count > max_retries
check_circuit_breaker_Gt(state) ==
    IF LessThan(Get(state, "max_retries"), Get(state, "retry_count"))
    THEN Ok(Set(state, "circuit_open", Bool(TRUE)))
    ELSE Ok(state)

check_circuit_breaker(state) ==
    IF AtMost(Get(state, "max_retries"), Get(state, "retry_count"))
    THEN Ok(Set(state, "circuit_open", Bool(TRUE)))
    ELSE Ok(state)

retry_request(state) ==
    Ok(Set(state, "retry_count", AddInt(Get(state, "retry_count"), 1)))

use_fallback_service(state) ==
    Ok(Assign(state,
         <<<<"use_fallback", Bool(TRUE)>>,
           <<"response_status", Num(200)>>,
           <<"response_body",
             Str("{\"degraded\": true, \"message\": \"Using cached/fallback data\"}")>>>>))

format_error_response(state) ==
    Ok(Assign(state,
         <<<<"response_status", Num(503)>>,
           <<"response_body",
             Fmt("{{\"error\": \"{state['error_message']}\", \"retry_after\": 60}}",
                 <<Get(state, "error_message")>>)>>>>))

route_after_cache(state) ==
    IF Truthy(Get(state, "use_cache")) THEN Route("__end__", state)
    ELSE Route("primary", state)

\* route_after_primary that retries only a status of 500
route_after_primary_Only500(state) ==
    IF PyEq(Get(state, "response_status"), Num(500))
    THEN Route("check_circuit", state)
    ELSE Route("__end__", state)

route_after_primary(state) ==
    IF PyEq(Get(state, "response_status"), Num(200))
    THEN Route("__end__", state)
    ELSE Route("check_circuit", state)

\* route_after_circuit_check with the retry test before the circuit test
route_after_circuit_check_RetryFirst(state) ==
    IF LessThan(Get(state, "retry_count"), Get(state, "max_retries"))
    THEN Route("retry", state)
    ELSE IF Truthy(Get(state, "circuit_open")) THEN Route("error", state)
    ELSE Route("fallback", state)

route_after_circuit_check(state) ==
    IF Truthy(Get(state, "circuit_open")) THEN Route("error", state)
    ELSE IF LessThan(Get(state, "retry_count"), Get(state, "max_retries"))
    THEN Route("retry", state)
    ELSE Route("fallback", state)

\* ab_testing_router.py
\* d.get(k, default)
GetOr(d, k, default) == IF Has(d, k) THEN Get(d, k) ELSE default

\* v in lst
Member(v, lst) == \E i \in 1..Len(lst.items) : PyEq(v, lst.items[i])

\* d.update(other)
RECURSIVE UpdateFrom(_, _, _)
UpdateFrom(d, other, i) ==
    IF i > Len(other.keys) THEN d
    ELSE UpdateFrom(Set(d, other.keys[i], other.items[i]), other, i + 1)

Update(d, other) == UpdateFrom(d, other, 1)

StrsOf(names) == List([i \in 1..Len(names) |-> Str(names[i])])

\* user_hash is hash(user_id) % 100, which differs from process to process
identify_user(state, user_hash) ==
    Ok(Set(state, "user_segment",
           IF user_hash < 20 THEN Str("new_users")
           ELSE IF user_hash < 50 THEN Str("active_users")
           ELSE Str("power_users")))

\* lines 50-69
experiment_configs ==
    Dict(<<"homepage_redesign", "pricing_test", "checkout_flow">>,
         <<Dict(<<"variants", "traffic_allocation", "target_segments",
                  "feature_flags">>,
                <<StrsOf(<<"control", "variant_a", "variant_b">>),
                  Dict(<<"control", "variant_a", "variant_b">>,
                       <<Tenths(4), Tenths(3), Tenths(3)>>),
                  StrsOf(<<"new_users", "active_users">>),
                  Dict(<<"new_homepage">>, <<Bool(TRUE)>>)>>),
           Dict(<<"variants", "traffic_allocation", "target_segments",
                  "feature_flags">>,
                <<StrsOf(<<"control", "variant_a">>),
                  Dict(<<"control", "variant_a">>, <<Tenths(5), Tenths(5)>>),
                  StrsOf(<<"power_users">>),
                  Dict(<<"new_pricing">>, <<Bool(TRUE)>>)>>),
           Dict(<<"variants", "traffic_allocation", "target_segments",
                  "feature_flags">>,
                <<StrsOf(<<"control", "variant_a">>),
                  Dict(<<"control", "variant_a">>, <<Tenths(6), Tenths(4)>>),
                  StrsOf(<<"new_users", "active_users", "power_users">>),
                  Dict(<<"streamlined_checkout">>, <<Bool(TRUE)>>)>>)>>)

load_experiment_config(state) ==
    LET config == GetOr(experiment_configs, Get(state, "experiment_id").s,
                        EmptyDict)
    IN Ok(Assign(state,
            <<<<"experiment_config", config>>,
              <<"feature_flags", GetOr(config, "feature_flags", EmptyDict)>>>>))

check_eligibility(state) ==
    LET target_segments ==
            GetOr(Get(state, "experiment_config"), "target_segments",
                  List(<<>>))
        eligible == Member(Get(state, "user_segment"), target_segments)
    IN IF ~eligible
       THEN Ok(SetIn(Set(state, "variant", Str("control")),
                     "tracking_data", "eligibility", Str("excluded")))
       ELSE Ok(SetIn(state, "tracking_data", "eligibility", Str("included")))

\* int(percentage * 100)
Percent(percentage) == percentage.n * 100 + percentage.f \div (Unit \div 100)

\* the for loop of lines 116-124 from the i-th item of allocation on
RECURSIVE Allocate(_, _, _, _)
Allocate(allocation, user_hash, i, cumulative) ==
    IF i > Len(allocation.keys) THEN Str("control")
    ELSE LET reached == cumulative + Percent(allocation.items[i])
         IN IF user_hash < reached THEN Str(allocation.keys[i])
            ELSE Allocate(allocation, user_hash, i + 1, reached)

\* user_hash is hash(state["user_id"] + state["experiment_id"]) % 100
assign_variant(state, user_hash) ==
    IF Truthy(Get(state, "override_variant"))
    THEN Ok(SetIn(Set(state, "variant", Get(state, "override_variant")),
                  "tracking_data", "assignment", Str("override")))
    ELSE LET allocation ==
                 GetOr(Get(state, "experiment_config"), "traffic_allocation",
                       EmptyDict)
         IN Ok(SetIn(Set(state, "variant",
                         Allocate(allocation, user_hash, 1, 0)),
                     "tracking_data", "assignment", Str("algorithmic")))

\* lines 136-140
variant_features ==
    Dict(<<"variant_a", "variant_b", "control">>,
         <<Dict(<<"use_new_design", "show_recommendations">>,
                <<Bool(TRUE), Bool(TRUE)>>),
           Dict(<<"use_new_design", "show_social_proof">>,
                <<Bool(TRUE), Bool(TRUE)>>),
           Dict(<<"use_new_design">>, <<Bool(FALSE)>>)>>)

\* load_experiment_config bound state["feature_flags"] to the dict held in
\* the configuration (line 75), so the update of line 145 shows in both
activate_features(state) ==
    LET features == GetOr(variant_features, Get(state, "variant").s, EmptyDict)
        flags == Update(Get(state, "feature_flags"), features)
        s1 == Set(state, "feature_flags", flags)
    IN IF Has(Get(state, "experiment_config"), "feature_flags")
       THEN Ok(SetIn(s1, "experiment_config", "feature_flags", flags))
       ELSE Ok(s1)

track_assignment(state) ==
    Ok(SetIn(state, "tracking_data", "assignment_event",
             Dict(<<"event", "experiment_id", "variant", "user_id",
                    "user_segment", "timestamp">>,
                  <<Str("experiment_assignment"), Get(state, "experiment_id"),
                    Get(state, "variant"), Get(state, "user_id"),
                    Get(state, "user_segment"),
                    Str("2024-01-15T12:00:00Z")>>)))

route_after_eligibility(state) ==
    IF PyEq(GetOr(Get(state, "tracking_data"), "eligibility", None),
            Str("excluded"))
    THEN Route("track", state)
    ELSE Route("assign", state)

\* content_moderation.py
\* for word in words: if word in content: flags.append(prefix + word)
RECURSIVE FlagFrom(_, _, _, _, _)
FlagFrom(flags, content, prefix, words, i) ==
    IF i > Len(words) THEN flags
    ELSE FlagFrom(IF Contains(content, words[i])
                  THEN ListAppend(flags, Str(prefix \o words[i]))
                  ELSE flags,
                  content, prefix, words, i + 1)

Content(state) == Lower(Get(state, "content").s)

keyword_filter(state) ==
    Ok(Set(state, "flags",
           FlagFrom(Get(state, "flags"), Content(state), "keyword:",
                    <<"spam", "scam", "hack", "illegal">>, 1)))

sentiment_check(state) ==
    Ok(Set(state, "flags",
           FlagFrom(Get(state, "flags"), Content(state), "toxic:",
                    <<"hate", "violence", "threat", "abuse">>, 1)))

ml_classifier(state) ==
    LET flag_count == Len(Get(state, "flags").items)
    IN Ok(Set(state, "severity",
              IF flag_count = 0 THEN Str("safe")
              ELSE IF flag_count <= 2 THEN Str("warning")
              ELSE Str("dangerous")))

\* sep.join(lst) from the i-th element on
RECURSIVE JoinFrom(_, _, _)
JoinFrom(sep, lst, i) ==
    IF i > Len(lst.items) THEN ""
    ELSE IF i = Len(lst.items) THEN lst.items[i].s
    ELSE lst.items[i].s \o sep \o JoinFrom(sep, lst, i + 1)

Join(sep, lst) == Str(JoinFrom(sep, lst, 1))

auto_moderator(state) ==
    IF PyEq(Get(state, "severity"), Str("safe"))
    THEN Ok(Assign(state, <<<<"auto_decision", Str("approve")>>,
                            <<"final_decision", Str("approve")>>,
                            <<"reason", Str("No issues detected")>>>>))
    ELSE IF PyEq(Get(state, "severity"), Str("dangerous"))
    THEN Ok(Assign(state,
              <<<<"auto_decision", Str("reject")>>,
                <<"final_decision", Str("reject")>>,
                <<"reason",
                  Fmt("Dangerous content detected: {', '.join(state['flags'])}",
                      <<Join(", ", Get(state, "flags"))>>)>>>>))
    ELSE Ok(Assign(state, <<<<"auto_decision", Str("review")>>,
                            <<"human_review_required", Bool(TRUE)>>>>))

human_review(state) ==
    Ok(Assign(state,
         <<<<"final_decision", Str("review_pending")>>,
           <<"reason",
             Str("Flagged for human review: "
                 \o Join(", ", Get(state, "flags")).s)>>>>))

route_after_auto_moderator(state) ==
    IF Truthy(Get(state, "human_review_required"))
    THEN Route("human_review", state)
    ELSE Route("__end__", state)

\* customer_support_agent.py
\* s[:k]
Prefix(s, k) == SubSeq(s, 1, IF Len(s) < k THEN Len(s) ELSE k)

analyze_message(state) ==
    LET message == Lower(Get(state, "customer_message").s)
        sentiment ==
            IF AnyIn(<<"angry", "frustrated", "terrible">>, message)
            THEN "negative"
            ELSE IF AnyIn(<<"great", "happy", "excellent">>, message)
            THEN "positive"
            ELSE "neutral"
        category ==
            IF AnyIn(<<"bug", "error", "crash", "technical">>, message)
            THEN "technical"
            ELSE IF AnyIn(<<"payment", "billing", "charge", "refund">>,
                          message)
            THEN "billing"
            ELSE "general"
        priority ==
            IF sentiment = "negative" /\ category \in {"technical", "billing"}
            THEN "high"
            ELSE IF sentiment = "negative" \/ category = "billing"
            THEN "medium"
            ELSE "low"
    IN Ok(Assign(state, <<<<"sentiment", Str(sentiment)>>,
                          <<"category", Str(category)>>,
                          <<"priority", Str(priority)>>>>))

\* handle_tier1 without the else branch that clears resolved
handle_tier1_NoReset(state) ==
    IF PyEq(Get(state, "category"), Str("general"))
       /\ PyEq(Get(state, "priority"), Str("low"))
    THEN Ok(Assign(state,
              <<<<"response",
                  Fmt("Thank you for contacting us about: {state['customer_message'][:50]}...",
                      <<Str(Prefix(Get(state, "customer_message").s, 50))>>)>>,
                <<"resolved", Bool(TRUE)>>>>))
    ELSE Ok(state)

handle_tier1(state) ==
    IF PyEq(Get(state, "category"), Str("general"))
       /\ PyEq(Get(state, "priority"), Str("low"))
    THEN Ok(Assign(state,
              <<<<"response",
                  Fmt("Thank you for contacting us about: {state['customer_message'][:50]}...",
                      <<Str(Prefix(Get(state, "customer_message").s, 50))>>)>>,
                <<"resolved", Bool(TRUE)>>>>))
    ELSE Ok(Set(state, "resolved", Bool(FALSE)))

handle_tier2(state) ==
    IF InList(Get(state, "category"), <<"technical", "billing">>)
       /\ InList(Get(state, "priority"), <<"low", "medium">>)
    THEN Ok(Assign(state,
              <<<<"response",
                  Fmt("Our specialist will handle your {state['category']} issue.",
                      <<Get(state, "category")>>)>>,
                <<"resolved", Bool(TRUE)>>>>))
    ELSE Ok(Set(state, "resolved", Bool(FALSE)))

escalate(state) ==
    Ok(Assign(state,
         <<<<"response",
             Str("This has been escalated to our senior support team.")>>,
           <<"escalated", Bool(TRUE)>>,
           <<"resolved", Bool(TRUE)>>>>))

route_after_analysis(state) ==
    IF PyEq(Get(state, "priority"), Str("high")) THEN Route("escalate", state)
    ELSE IF InList(Get(state, "category"), <<"technical", "billing">>)
    THEN Route("tier2", state)
    ELSE Route("tier1", state)

route_after_tier1(state) ==
    IF Truthy(Get(state, "resolved")) THEN Route("__end__", state)
    ELSE Route("tier2", state)

route_after_tier2(state) ==
    IF Truthy(Get(state, "resolved")) THEN Route("__end__", state)
    ELSE Route("escalate", state)

\* a datetime: the ordinal of its day, counted from a Monday, and its time
DateTime(day, hour, minute, second, microsecond) ==
    [day |-> day, hour |-> hour, minute |-> minute, second |-> second,
     microsecond |-> microsecond]

\* t.weekday(): Monday is 0
Weekday(t) == t.day % 7

\* t.isoformat()
IsoFormat(t) ==
    Fmt("{day}T{hour}:{minute}:{second}.{microsecond}",
        <<Num(t.day), Num(t.hour), Num(t.minute), Num(t.second),
          Num(t.microsecond)>>)

\* data_validation_enrichment.py
Digits == "0123456789"

IsDigits(s) == \A i \in 1..Len(s) : IsIn(Digits, Char(s, i))

\* int(s) for a string of digits
RECURSIVE DigitsValue(_)
DigitsValue(s) ==
    IF s = "" THEN 0
    ELSE DigitsValue(SubSeq(s, 1, Len(s) - 1)) * 10
         + (PositionIn(Digits, Char(s, Len(s))) - 1)

RECURSIVE Pow10(_)
Pow10(k) == IF k = 0 THEN 1 ELSE 10 * Pow10(k - 1)

\* the first position of the character c in s, Len(s) + 1 when it is absent
FirstOf(s, c) ==
    IF Contains(s, c) THEN CHOOSE i \in 1..Len(s) :
                               Char(s, i) = c /\ ~Contains(SubSeq(s, 1, i - 1), c)
    ELSE Len(s) + 1

Unsigned(s) == IF s # "" /\ Char(s, 1) \in {"+", "-"} THEN Tail(s) ELSE s

WholePart(s) == SubSeq(Unsigned(s), 1, FirstOf(Unsigned(s), ".") - 1)

FracPart(s) ==
    SubSeq(Unsigned(s), FirstOf(Unsigned(s), ".") + 1, Len(Unsigned(s)))

\* float(s) returns for a decimal numeral of at most nine whole and nine
\* fractional digits; any other text of the model's inputs raises ValueError
IsFloat(s) ==
    /\ IsDigits(WholePart(s)) /\ IsDigits(FracPart(s))
    /\ WholePart(s) \o FracPart(s) # ""
    /\ Len(WholePart(s)) <= 9 /\ Len(FracPart(s)) <= 9

\* float(s)
FloatOf(s) ==
    LET n == DigitsValue(WholePart(s))
        f == DigitsValue(FracPart(s)) * Pow10(9 - Len(FracPart(s)))
    IN IF s # "" /\ Char(s, 1) = "-"
       THEN (IF f = 0 THEN Frac(-n, 0) ELSE Frac(-n - 1, Unit - f))
       ELSE Frac(n, f)

\* s.split(sep)[-1] for a one-character sep
RECURSIVE AfterLast(_, _)
AfterLast(s, sep) ==
    IF Contains(s, sep)
    THEN AfterLast(SubSeq(s, FirstOf(s, sep) + 1, Len(s)), sep) ELSE s

IsLetter(c) == IsIn(Uppers, c) \/ IsIn(Lowers, c)

\* s.title() for the text after a character that is a letter or not
RECURSIVE TitleFrom(_, _)
TitleFrom(s, after_letter) ==
    IF s = "" THEN ""
    ELSE (IF after_letter THEN LowerChar(Head(s)) ELSE UpperChar(Head(s)))
         \o TitleFrom(Tail(s), IsLetter(Head(s)))

Title(s) == TitleFrom(s, FALSE)

classify_data(state) ==
    LET data == Get(state, "raw_data")
    IN Ok(Set(state, "data_type",
              IF Has(data, "email") /\ Has(data, "name") THEN Str("contact")
              ELSE IF Has(data, "product_id") /\ Has(data, "price")
              THEN Str("product")
              ELSE IF Has(data, "user_id") /\ Has(data, "action")
              THEN Str("event")
              ELSE Str("unknown")))

\* the messages a check appends: none, or one
Errors(cond, msg) == IF cond THEN <<Str(msg)>> ELSE <<>>

ContactErrors(data) ==
    (IF ~Has(data, "email")
     THEN <<Str("Missing required field: email")>>
     ELSE Errors(~Contains(Get(data, "email").s, "@"),
                 "Invalid email format"))
    \o (IF ~Has(data, "name")
        THEN <<Str("Missing required field: name")>>
        ELSE Errors(Len(Get(data, "name").s) < 2, "Name too short"))

ProductErrors(data) ==
    Errors(~Has(data, "product_id"), "Missing required field: product_id")
    \o (IF ~Has(data, "price")
        THEN <<Str("Missing required field: price")>>
        ELSE IF ~IsFloat(Get(data, "price").s)
        THEN <<Str("Price must be a number")>>
        ELSE Errors(LessThan(FloatOf(Get(data, "price").s), Num(0)),
                    "Price cannot be negative"))

EventErrors(data) ==
    Errors(~Has(data, "user_id"), "Missing required field: user_id")
    \o Errors(~Has(data, "action"), "Missing required field: action")

validate_schema(state) ==
    LET data == Get(state, "raw_data")
        data_type == Get(state, "data_type").s
    IN Ok(Set(state, "validation_errors",
              List(CASE data_type = "contact" -> ContactErrors(data)
                     [] data_type = "product" -> ProductErrors(data)
                     [] data_type = "event" -> EventErrors(data)
                     [] OTHER -> <<>>)))

\* lines 88-100
EnrichContact(enriched) ==
    LET e1 == IF Has(enriched, "email")
              THEN LET domain == AfterLast(Get(enriched, "email").s, "@")
                   IN Assign(enriched,
                        <<<<"email_domain", Str(domain)>>,
                          <<"email_provider",
                            IF domain \in {"gmail.com", "yahoo.com",
                                           "hotmail.com"}
                            THEN Str("consumer") ELSE Str("business")>>>>)
              ELSE enriched
    IN IF Has(e1, "name")
       THEN Set(e1, "name", Str(Title(Get(e1, "name").s)))
       ELSE e1

\* lines 104-111, for a price float() accepts
EnrichProduct(enriched) ==
    IF Has(enriched, "price")
    THEN LET price == FloatOf(Get(enriched, "price").s)
         IN Set(enriched, "price_tier",
                IF LessThan(price, Num(10)) THEN Str("budget")
                ELSE IF LessThan(price, Num(100)) THEN Str("standard")
                ELSE Str("premium"))
    ELSE enriched

\* now is datetime.datetime.now() at line 117
enrich_data(state, now) ==
    LET enriched == Get(state, "raw_data")
        data_type == Get(state, "data_type").s
    IN IF data_type = "product" /\ Has(enriched, "price")
          /\ ~IsFloat(Get(enriched, "price").s)
       THEN Raise("ValueError")
       ELSE Ok(Set(state, "enriched_data",
                   CASE data_type = "contact" -> EnrichContact(enriched)
                     [] data_type = "product" -> EnrichProduct(enriched)
                     [] data_type = "event" ->
                            IF ~Has(enriched, "timestamp")
                            THEN Set(enriched, "timestamp", IsoFormat(now))
                            ELSE enriched
                     [] OTHER -> enriched))

\* max(0.0, min(1.0, 1.0 - error_count * 0.2 + enriched_count * 0.1))
Score(error_count, enriched_count) ==
    LET tenths == 10 - 2 * error_count + enriched_count
    IN IF tenths > 10 THEN Tenths(10)
       ELSE IF tenths < 0 THEN Tenths(0)
       ELSE Tenths(tenths)

calculate_quality_score(state) ==
    LET score == Score(Len(Get(state, "validation_errors").items),
                       Len(Get(state, "enriched_data").keys)
                       - Len(Get(state, "raw_data").keys))
        s1 == Set(state, "quality_score", score)
    IN IF LessThan(score, Tenths(6))
       THEN Ok(Set(s1, "needs_manual_review", Bool(TRUE)))
       ELSE Ok(s1)

manual_review_queue(state) == Ok(Set(state, "processed", Bool(FALSE)))

\* now is datetime.datetime.now() at line 158
finalize_processing(state, now) ==
    Ok(Assign(state, <<<<"processed", Bool(TRUE)>>,
                       <<"timestamp", IsoFormat(now)>>>>))

\* route_after_validation that rejects on more than one error
data_route_after_validation_Gt1(state) ==
    IF Len(Get(state, "validation_errors").items) > 1
    THEN Route("__end__", state)
    ELSE Route("enrich", state)

data_route_after_validation(state) ==
    IF Len(Get(state, "validation_errors").items) > 3
    THEN Route("__end__", state)
    ELSE Route("enrich", state)

route_after_quality(state) ==
    IF Truthy(Get(state, "needs_manual_review"))
    THEN Route("manual_review", state)
    ELSE Route("finalize", state)

\* document_processing.py
\* s.split(sep) for a one-character sep
RECURSIVE SplitOn(_, _)
SplitOn(s, sep) ==
    IF Contains(s, sep)
    THEN <<SubSeq(s, 1, FirstOf(s, sep) - 1)>>
         \o SplitOn(SubSeq(s, FirstOf(s, sep) + 1, Len(s)), sep)
    ELSE <<s>>

\* the whitespace the model's texts hold
IsSpace(c) == c \in {" ", "\n", "\t"}

\* s.split(): the words before and after the whitespace nearest the middle
RECURSIVE Words(_)
Words(s) ==
    LET spaces == {i \in 1..Len(s) : IsSpace(Char(s, i))}
        Off(i) == Abs(2 * i - Len(s))
    IN IF spaces = {} THEN (IF s = "" THEN <<>> ELSE <<s>>)
       ELSE LET p == CHOOSE i \in spaces : \A j \in spaces : Off(i) <= Off(j)
            IN Words(SubSeq(s, 1, p - 1)) \o Words(SubSeq(s, p + 1, Len(s)))

RECURSIVE LStrip(_)
LStrip(s) == IF s # "" /\ IsSpace(Head(s)) THEN LStrip(Tail(s)) ELSE s

RECURSIVE RStrip(_)
RStrip(s) ==
    IF s # "" /\ IsSpace(Char(s, Len(s)))
    THEN RStrip(SubSeq(s, 1, Len(s) - 1)) ELSE s

\* s.strip()
Strip(s) == RStrip(LStrip(s))

\* s.replace(old, new) for a non-empty old
RECURSIVE Replace(_, _, _)
Replace(s, old, new) ==
    IF ~Contains(s, old) THEN s
    ELSE LET at == {i \in 1..Len(s) : StartsWith(SubSeq(s, i, Len(s)), old)}
             p == CHOOSE i \in at : \A j \in at : i <= j
         IN SubSeq(s, 1, p - 1) \o new
            \o Replace(SubSeq(s, p + Len(old), Len(s)), old, new)

detect_document_type(state) ==
    LET content == Get(state, "raw_content").s
    IN Ok(Set(state, "document_type",
              IF StartsWith(content, "From:") \/ StartsWith(content, "To:")
              THEN Str("email")
              ELSE IF Contains(content, "Dear") /\ Contains(content, "Sincerely")
              THEN Str("letter")
              ELSE IF Len(content) < 100 THEN Str("note")
              ELSE Str("document")))

extract_text(state) == Ok(Set(state, "extracted_text", Get(state, "raw_content")))

\* lines 53-55 from the i-th line on
RECURSIVE DatesFrom(_, _, _)
DatesFrom(metadata, lines, i) ==
    IF i > Len(lines) THEN metadata
    ELSE DatesFrom(IF Contains(Lower(lines[i]), "date:")
                   THEN Set(metadata, "date",
                            Str(Strip(AfterLast(lines[i], ":"))))
                   ELSE metadata,
                   lines, i + 1)

\* line.replace(prefix, "").strip()
Field(line, prefix) == Str(Strip(Replace(line, prefix, "")))

\* lines 59-65 from the i-th line on
RECURSIVE HeadersFrom(_, _, _)
HeadersFrom(metadata, lines, i) ==
    IF i > Len(lines) THEN metadata
    ELSE HeadersFrom(
             IF StartsWith(lines[i], "From:")
             THEN Set(metadata, "from", Field(lines[i], "From:"))
             ELSE IF StartsWith(lines[i], "To:")
             THEN Set(metadata, "to", Field(lines[i], "To:"))
             ELSE IF StartsWith(lines[i], "Subject:")
             THEN Set(metadata, "subject", Field(lines[i], "Subject:"))
             ELSE metadata,
             lines, i + 1)

extract_metadata(state) ==
    LET text == Get(state, "extracted_text").s
        lines == SplitOn(text, "\n")
        dated == IF Contains(Lower(text), "date:")
                 THEN DatesFrom(EmptyDict, lines, 1) ELSE EmptyDict
    IN Ok(Set(state, "metadata",
              IF PyEq(Get(state, "document_type"), Str("email"))
              THEN HeadersFrom(dated, lines, 1) ELSE dated))

Entity(type, value) == Dict(<<"type", "value">>, <<Str(type), Str(value)>>)

\* the entities of one kind, in the order of the words
EntitiesOf(words, type) ==
    LET Is(word) == IF type = "email" THEN Contains(word, "@")
                    ELSE IsIn(Uppers, Char(word, 1)) /\ Len(word) > 1
        F[i \in 0..Len(words)] ==
            IF i = 0 THEN <<>>
            ELSE IF Is(words[i]) THEN Append(F[i - 1], Entity(type, words[i]))
            ELSE F[i - 1]
    IN F[Len(words)]

extract_entities(state) ==
    LET words == Words(Get(state, "extracted_text").s)
    IN Ok(Set(state, "entities",
              List(EntitiesOf(words, "email") \o EntitiesOf(words, "name"))))

validate_document(state) ==
    LET metadata == Get(state, "metadata")
    IN Ok(Set(state, "validation_errors",
              List((IF PyEq(Get(state, "document_type"), Str("email"))
                    THEN Errors(~Has(metadata, "from"),
                                "Missing 'from' field in email")
                         \o Errors(~Has(metadata, "to"),
                                   "Missing 'to' field in email")
                    ELSE <<>>)
                   \o Errors(Len(Get(state, "extracted_text").s) < 10,
                             "Insufficient text extracted"))))

finalize_document(state) == Ok(Set(state, "processed", Bool(TRUE)))

retry_extraction(state) ==
    LET s1 == Set(state, "retry_count", AddInt(Get(state, "retry_count"), 1))
    IN IF AtMost(Get(s1, "retry_count"), Num(2))
       THEN Ok(Assign(s1, <<<<"extracted_text", Get(s1, "raw_content")>>,
                            <<"validation_errors", List(<<>>)>>>>))
       ELSE Ok(Set(s1, "processed", Bool(FALSE)))

\* route_after_validation with the retry test written retry_count <= 2
document_route_after_validation_Le(state) ==
    IF Len(Get(state, "validation_errors").items) = 0
    THEN Route("finalize", state)
    ELSE IF AtMost(Get(state, "retry_count"), Num(2))
    THEN Route("retry", state)
    ELSE Route("finalize", state)

document_route_after_validation(state) ==
    IF Len(Get(state, "validation_errors").items) = 0
    THEN Route("finalize", state)
    ELSE IF LessThan(Get(state, "retry_count"), Num(2))
    THEN Route("retry", state)
    ELSE Route("finalize", state)

\* email_campaign.py
User(email, name, segment, subscribed) ==
    Dict(<<"email", "name", "segment", "subscribed">>,
         <<Str(email), Str(name), Str(segment), Bool(subscribed)>>)

\* lines 34-39
all_users ==
    <<User("user1@example.com", "Alice", "active", TRUE),
      User("user2@example.com", "Bob", "inactive", TRUE),
      User("user3@example.com", "Charlie", "active", FALSE),
      User("user4@example.com", "Diana", "active", TRUE)>>

\* [x for x in lst if Keep(x)]
Filter(lst, Keep(_)) ==
    LET F[i \in 0..Len(lst)] ==
            IF i = 0 THEN <<>>
            ELSE IF Keep(lst[i]) THEN Append(F[i - 1], lst[i]) ELSE F[i - 1]
    IN F[Len(lst)]

load_recipients(state) ==
    LET criteria == Get(state, "segment_criteria")
        Matches(user) ==
            /\ ~(Has(criteria, "segment")
                 /\ ~PyEq(Get(user, "segment"), Get(criteria, "segment")))
            /\ ~(Has(criteria, "subscribed")
                 /\ ~PyEq(Get(user, "subscribed"), Get(criteria, "subscribed")))
    IN Ok(Set(state, "recipients", List(Filter(all_users, Matches))))

validate_recipients(state) ==
    LET Valid(recipient) ==
            LET email == GetOr(recipient, "email", Str("")).s
            IN /\ Contains(email, "@") /\ Contains(email, ".")
               /\ Truthy(GetOr(recipient, "subscribed", Bool(FALSE)))
               /\ ~Contains(email, "bounced")
    IN Ok(Set(state, "recipients",
              List(Filter(Get(state, "recipients").items, Valid))))

\* lines 96-104 for one recipient
Personalized(recipient, template) ==
    LET c1 == Replace(template, "{{name}}",
                      GetOr(recipient, "name", Str("Valued Customer")).s)
        c2 == Replace(c1, "{{email}}", GetOr(recipient, "email", Str("")).s)
        c3 == IF Has(recipient, "last_purchase")
              THEN Replace(c2, "{{last_purchase}}",
                           Get(recipient, "last_purchase").s)
              ELSE c2
    IN Set(recipient, "personalized_content", Str(c3))

personalize_content(state) ==
    LET template == Get(state, "email_content").s
        recipients == Get(state, "recipients").items
    IN Ok(Set(state, "recipients",
              List([i \in 1..Len(recipients) |->
                       Personalized(recipients[i], template)])))

ab_test_subject_lines(state) ==
    IF ~Truthy(Get(state, "ab_test_enabled")) THEN Ok(state)
    ELSE LET base_subject == Get(state, "subject_line")
             variants == <<base_subject,
                           Fmt("{base_subject} U+1F381", <<base_subject>>),
                           Fmt("URGENT: {base_subject}", <<base_subject>>)>>
             recipients == Get(state, "recipients").items
         IN Ok(Assign(state,
                 <<<<"ab_variants", List(variants)>>,
                   <<"recipients",
                     List([i \in 1..Len(recipients) |->
                              Assign(recipients[i],
                                <<<<"subject_variant",
                                    variants[((i - 1) % 3) + 1]>>,
                                  <<"variant_name",
                                    Str("variant_"
                                        \o Char(Uppers, ((i - 1) % 3) + 1))>>>>)])>>>>))

\* lines 147-152
NextTuesdayAtTen(now) ==
    LET at_ten == DateTime(now.day, 10, 0, 0, now.microsecond)
        days_ahead == 1 - Weekday(at_ten)
    IN IF Weekday(at_ten) # 1
       THEN [at_ten EXCEPT !.day = @ + (IF days_ahead <= 0 THEN days_ahead + 7
                                        ELSE days_ahead)]
       ELSE at_ten

\* now is datetime.datetime.now() at line 142
schedule_delivery(state, now) ==
    LET campaign_type == Get(state, "campaign_type").s
    IN Ok(Set(state, "scheduled_time",
              IsoFormat(IF campaign_type = "newsletter"
                        THEN NextTuesdayAtTen(now)
                        ELSE IF campaign_type = "promotional"
                        THEN DateTime(now.day, 14, 0, 0, now.microsecond)
                        ELSE now)))

\* randoms[i] is the value random.random() returns for the i-th recipient
send_emails(state, randoms) ==
    LET n == Len(Get(state, "recipients").items)
        failed == Cardinality({i \in 1..n : LessThan(Hundredths(95), randoms[i])})
    IN Ok(Set(state, "delivery_status",
              Dict(<<"sent", "failed", "bounced">>,
                   <<Num(n - failed), Num(failed), Num(0)>>)))

track_engagement(state) ==
    IF ~Has(Get(state, "delivery_status"), "sent") THEN Raise("KeyError")
    ELSE Ok(Set(state, "engagement_metrics",
                Dict(<<"delivered", "opened", "clicked", "unsubscribed">>,
                     <<Get(Get(state, "delivery_status"), "sent"), Num(0),
                       Num(0), Num(0)>>)))

email_route_after_validation(state) ==
    IF Len(Get(state, "recipients").items) = 0
    THEN Route("__end__",
               Set(state, "delivery_status",
                   Dict(<<"sent", "failed", "bounced">>,
                        <<Num(0), Num(0), Num(0)>>)))
    ELSE Route("personalize", state)

\* etl_pipeline.py
Record(keys, texts) == Dict(keys, [i \in 1..Len(texts) |-> Str(texts[i])])

\* lines 32-50
extract_data(state) ==
    LET source_type == Get(state, "source_type").s
        raw_records ==
            CASE source_type = "database" ->
                     <<Record(<<"id", "name", "age", "email">>,
                              <<"1", "John Doe", "30", "john@example.com">>),
                       Record(<<"id", "name", "age", "email">>,
                              <<"2", "Jane Smith", "25", "jane@example.com">>),
                       Record(<<"id", "name", "age", "email">>,
                              <<"3", "Bob Wilson", "invalid", "bob@example">>)>>
              [] source_type = "api" ->
                     <<Record(<<"user_id", "transaction_amount", "date">>,
                              <<"101", "150.50", "2024-01-15">>),
                       Record(<<"user_id", "transaction_amount", "date">>,
                              <<"102", "75.25", "2024-01-16">>)>>
              [] source_type = "file" ->
                     <<Record(<<"product_id", "quantity", "price">>,
                              <<"P1", "100", "29.99">>),
                       Record(<<"product_id", "quantity", "price">>,
                              <<"P2", "50", "49.99">>)>>
              [] OTHER -> <<>>
    IN Ok(Assign(state, <<<<"raw_records", List(raw_records)>>,
                          <<"record_count", Num(Len(raw_records))>>>>))

\* int(s) returns for a decimal numeral of at most nine digits; any other
\* text of the model's inputs raises ValueError
IsInt(s) ==
    Unsigned(s) # "" /\ IsDigits(Unsigned(s)) /\ Len(Unsigned(s)) <= 9

\* int(s)
IntOf(s) ==
    IF Char(s, 1) = "-" THEN Num(-DigitsValue(Unsigned(s)))
    ELSE Num(DigitsValue(Unsigned(s)))

RecordError(i, field, error) ==
    Dict(<<"record", "field", "error">>, <<Num(i), Str(field), Str(error)>>)

\* lines 64-89 for the record at index i
RecordErrors(record, i) ==
    (IF Has(record, "id") /\ ~Truthy(Get(record, "id"))
     THEN <<RecordError(i, "id", "Missing ID")>> ELSE <<>>)
    \o (IF Has(record, "email")
           /\ (~Contains(Get(record, "email").s, "@")
               \/ ~Contains(Get(record, "email").s, "."))
        THEN <<RecordError(i, "email", "Invalid email format")>> ELSE <<>>)
    \o (IF ~Has(record, "age") THEN <<>>
        ELSE IF ~IsInt(Get(record, "age").s)
        THEN <<RecordError(i, "age", "Age must be numeric")>>
        ELSE IF LessThan(IntOf(Get(record, "age").s), Num(0))
                \/ LessThan(Num(150), IntOf(Get(record, "age").s))
        THEN <<RecordError(i, "age", "Age out of range")>>
        ELSE <<>>)
    \o (IF ~Has(record, "transaction_amount") THEN <<>>
        ELSE IF ~IsFloat(Get(record, "transaction_amount").s)
        THEN <<RecordError(i, "transaction_amount", "Amount must be numeric")>>
        ELSE IF LessThan(FloatOf(Get(record, "transaction_amount").s), Num(0))
        THEN <<RecordError(i, "transaction_amount",
                           "Amount cannot be negative")>>
        ELSE <<>>)

RECURSIVE ErrorsFrom(_, _)
ErrorsFrom(records, i) ==
    IF i > Len(records) THEN <<>>
    ELSE RecordErrors(records[i], i - 1) \o ErrorsFrom(records, i + 1)

validate_records(state) ==
    Ok(Set(state, "validation_errors",
           List(ErrorsFrom(Get(state, "raw_records").items, 1))))

\* a * k for an int k >= 0, by doubling
RECURSIVE TimesInt(_, _)
TimesInt(a, k) ==
    IF k = 0 THEN Num(0)
    ELSE LET half == TimesInt(a, k \div 2)
             even == AddNum(half, half)
         IN IF k % 2 = 1 THEN AddNum(even, a) ELSE even

\* lines 109-128
NormalizePerson(record) ==
    LET r1 == IF Has(record, "name")
              THEN Set(record, "name", Str(Title(Get(record, "name").s)))
              ELSE record
        r2 == IF Has(r1, "email")
              THEN Set(r1, "email", Str(Lower(Get(r1, "email").s)))
              ELSE r1
    IN IF Has(r2, "age")
       THEN LET age == IntOf(Get(r2, "age").s)
            IN Assign(r2, <<<<"age", age>>,
                            <<"age_group",
                              IF LessThan(age, Num(18)) THEN Str("minor")
                              ELSE IF LessThan(age, Num(65)) THEN Str("adult")
                              ELSE Str("senior")>>>>)
       ELSE r2

\* lines 130-147
NormalizeAmounts(record) ==
    LET r1 == IF Has(record, "transaction_amount")
              THEN LET amount == FloatOf(Get(record, "transaction_amount").s)
                   IN Assign(record,
                        <<<<"transaction_amount", amount>>,
                          <<"tier",
                            IF LessThan(amount, Num(50)) THEN Str("small")
                            ELSE IF LessThan(amount, Num(200))
                            THEN Str("medium")
                            ELSE Str("large")>>>>)
              ELSE record
    IN IF Has(r1, "price") /\ Has(r1, "quantity")
       THEN Set(r1, "total_value",
                TimesInt(FloatOf(Get(r1, "price").s),
                         IntOf(Get(r1, "quantity").s).n))
       ELSE r1

\* the conversions of lines 119, 132, 145 and 146 succeed on the record
Convertible(record) ==
    /\ Has(record, "age") => IsInt(Get(record, "age").s)
    /\ Has(record, "transaction_amount") =>
           IsFloat(Get(record, "transaction_amount").s)
    /\ (Has(record, "price") /\ Has(record, "quantity")) =>
           /\ IsFloat(Get(record, "price").s)
           /\ IsInt(Get(record, "quantity").s)
           /\ IntOf(Get(record, "quantity").s).n >= 0

\* e["record"] == i for some e in state["validation_errors"]
HasErrors(state, i) ==
    \E j \in 1..Len(Get(state, "validation_errors").items) :
        PyEq(Get(Get(state, "validation_errors").items[j], "record"), Num(i))

\* the loop of lines 99-150 from the i-th record on
RECURSIVE TransformFrom(_, _, _)
TransformFrom(state, transformed, i) ==
    LET records == Get(state, "raw_records").items
    IN IF i > Len(records)
       THEN Ok(Set(state, "transformed_records", List(transformed)))
       ELSE IF HasErrors(state, i - 1)
       THEN TransformFrom(Set(state, "error_count",
                              AddInt(Get(state, "error_count"), 1)),
                          transformed, i + 1)
       ELSE IF ~Convertible(records[i]) THEN Raise("ValueError")
       ELSE TransformFrom(Set(state, "success_count",
                              AddInt(Get(state, "success_count"), 1)),
                          Append(transformed,
                                 NormalizeAmounts(NormalizePerson(records[i]))),
                          i + 1)

transform_data(state) == TransformFrom(state, <<>>, 1)

\* nows[i] is datetime.datetime.now() at line 162 for the i-th record
etl_enrich_data(state, nows) ==
    LET records == Get(state, "transformed_records").items
        errors == Get(state, "validation_errors").items
        Quality(record) ==
            IF \E j \in 1..Len(errors) :
                   PyEq(GetOr(errors[j], "record", None),
                        GetOr(record, "id", None))
            THEN Tenths(5) ELSE Tenths(10)
    IN Ok(Set(state, "transformed_records",
              List([i \in 1..Len(records) |->
                       Assign(records[i],
                         <<<<"processed_at", IsoFormat(nows[i])>>,
                           <<"source", Get(state, "source_type")>>,
                           <<"quality_score", Quality(records[i])>>>>)])))

load_data(state) ==
    LET destination == Get(state, "destination_type").s
        count == Num(Len(Get(state, "transformed_records").items))
    IN IF destination = "database"
       THEN Ok(Set(state, "load_status",
                   Fmt("Loaded {len(state['transformed_records'])} records to database",
                       <<count>>)))
       ELSE IF destination = "warehouse"
       THEN Ok(Set(state, "load_status",
                   Fmt("Loaded {len(state['transformed_records'])} records to warehouse",
                       <<count>>)))
       ELSE IF destination = "file"
       THEN Ok(Set(state, "load_status",
                   Fmt("Written {len(state['transformed_records'])} records to file",
                       <<count>>)))
       ELSE Ok(state)

\* success_count / record_count * 100, to 1e-9
SuccessRate(success_count, record_count) ==
    IF LessThan(Num(0), record_count)
    THEN DivideBy(Num(success_count.n * 100), record_count.n)
    ELSE Num(0)

generate_stats(state) ==
    Ok(Set(state, "pipeline_stats",
           Dict(<<"total_records", "successful", "failed", "success_rate",
                  "validation_errors">>,
                <<Get(state, "record_count"), Get(state, "success_count"),
                  Get(state, "error_count"),
                  SuccessRate(Get(state, "success_count"),
                              Get(state, "record_count")),
                  Num(Len(Get(state, "validation_errors").items))>>)))

etl_route_after_validation(state) ==
    IF Len(Get(state, "validation_errors").items) >= Get(state, "record_count").n
    THEN Route("stats",
               Set(state, "load_status", Str("FAILED: All records invalid")))
    ELSE Route("transform", state)

\* order_fulfillment.py
\* lst.extend(more)
Extend(lst, more) == List(lst.items \o more)

\* sum(item.get("price", 0) * item.get("quantity", 1) for item in items), for
\* quantities that are ints >= 0
RECURSIVE TotalFrom(_, _)
TotalFrom(items, i) ==
    IF i > Len(items) THEN Num(0)
    ELSE AddNum(TimesInt(GetOr(items[i], "price", Num(0)),
                         GetOr(items[i], "quantity", Num(1)).n),
                TotalFrom(items, i + 1))

validate_order(state) ==
    LET items == Get(state, "items")
        missing ==
            Errors(~Truthy(Get(state, "customer_id")),
                   "ERROR: Missing customer ID")
            \o Errors(~Truthy(items), "ERROR: No items in order")
            \o Errors(~Truthy(Get(state, "shipping_address")),
                      "ERROR: Missing shipping address")
    IN IF PyEq(Get(state, "total_amount"), Num(0)) /\ Truthy(items)
       THEN LET total == TotalFrom(items.items, 1)
                s1 == Set(state, "total_amount", total)
            IN Ok(Set(s1, "notes",
                      Extend(Get(s1, "notes"),
                             Append(missing,
                                    Fmt("Calculated total: ${total:.2f}",
                                        <<total>>)))))
       ELSE Ok(Set(state, "notes", Extend(Get(state, "notes"), missing)))

\* the notes of lines 62-64, in the order of the items
RECURSIVE ShortagesFrom(_, _)
ShortagesFrom(items, i) ==
    IF i > Len(items) THEN <<>>
    ELSE (IF LessThan(Num(100), GetOr(items[i], "quantity", Num(0)))
          THEN <<Fmt("Insufficient stock for item {item_id}",
                     <<GetOr(items[i], "product_id", Str(""))>>)>>
          ELSE <<>>)
         \o ShortagesFrom(items, i + 1)

check_inventory(state) ==
    LET shortages == ShortagesFrom(Get(state, "items").items, 1)
        all_available == shortages = <<>>
    IN Ok(Assign(state,
            <<<<"notes",
                Extend(Get(state, "notes"),
                       shortages \o (IF all_available
                                     THEN <<Str("Inventory reserved")>>
                                     ELSE <<>>))>>,
              <<"inventory_available", Bool(all_available)>>>>))

\* state[key] = v; state["notes"].append(note)
SetAndNote(state, key, v, note) ==
    Assign(state, <<<<key, v>>,
                    <<"notes", ListAppend(Get(state, "notes"), note)>>>>)

process_payment(state) ==
    LET amount == Get(state, "total_amount")
    IN IF AtMost(amount, Num(0))
       THEN Ok(SetAndNote(state, "payment_status", Str("failed"),
                          Str("ERROR: Invalid payment amount")))
       ELSE IF LessThan(Num(10000), amount)
       THEN Ok(SetAndNote(state, "payment_status", Str("pending"),
                          Str("High-value order flagged for review")))
       ELSE Ok(SetAndNote(state, "payment_status", Str("captured"),
                          Fmt("Payment captured: ${amount:.2f}", <<amount>>)))

select_shipping_method(state) ==
    LET total == Get(state, "total_amount")
        item_count == Len(Get(state, "items").items)
    IN IF AtMost(Num(100), total)
       THEN Ok(SetAndNote(state, "shipping_method", Str("free_standard"),
                          Str("Free shipping applied (order > $100)")))
       ELSE IF item_count > 5
       THEN Ok(SetAndNote(state, "shipping_method", Str("bulk_shipping"),
                          Str("Bulk shipping selected")))
       ELSE IF AtMost(Num(50), total)
       THEN Ok(Set(state, "shipping_method", Str("standard")))
       ELSE Ok(Set(state, "shipping_method", Str("economy")))

\* s.upper(), one half of the text after the other
RECURSIVE Upper(_)
Upper(s) ==
    IF Len(s) <= 1 THEN UpperChar(s)
    ELSE Upper(SubSeq(s, 1, Len(s) \div 2))
         \o Upper(SubSeq(s, Len(s) \div 2 + 1, Len(s)))

\* hex is uuid.uuid4().hex at line 123
create_shipment(state, hex) ==
    LET tracking_number == Str("TRK" \o Upper(Prefix(hex, 8)))
    IN Ok(Assign(state,
            <<<<"tracking_number", tracking_number>>,
              <<"order_status", Str("shipped")>>,
              <<"notes",
                ListAppend(Get(state, "notes"),
                           Fmt("Shipment created: {tracking_number}",
                               <<tracking_number>>))>>>>))

cancel_order(state) ==
    LET s1 == Set(state, "order_status", Str("cancelled"))
        s2 == IF PyEq(Get(s1, "payment_status"), Str("captured"))
              THEN SetAndNote(s1, "payment_status", Str("refunded"),
                              Str("Payment refunded"))
              ELSE s1
    IN IF Truthy(Get(s2, "inventory_available"))
       THEN Ok(Set(s2, "notes",
                   ListAppend(Get(s2, "notes"), Str("Inventory released"))))
       ELSE Ok(s2)

finalize_order(state) == Ok(Set(state, "order_status", Str("processing")))

order_route_after_validation(state) ==
    IF \E i \in 1..Len(Get(state, "notes").items) :
           StartsWith(Get(state, "notes").items[i].s, "ERROR:")
    THEN Route("cancel", state)
    ELSE Route("check_inventory", state)

route_after_inventory(state) ==
    IF Truthy(Get(state, "inventory_available")) THEN Route("payment", state)
    ELSE Route("cancel", state)

\* route_after_payment that cancels only a failed payment
route_after_payment_NotFailed(state) ==
    IF PyEq(Get(state, "payment_status"), Str("failed"))
    THEN Route("cancel", state)
    ELSE Route("shipping_select", state)

route_after_payment(state) ==
    IF PyEq(Get(state, "payment_status"), Str("captured"))
    THEN Route("shipping_select", state)
    ELSE Route("cancel", state)

\* recommendation_engine.py
fetch_user_profile(state) ==
    IF Truthy(Get(state, "user_id"))
    THEN Ok(Assign(state,
              <<<<"user_profile",
                  Dict(<<"age_group", "interests", "spending_tier">>,
                       <<Str("25-34"),
                         StrsOf(<<"technology", "books", "fitness">>),
                         Str("medium")>>)>>,
                <<"browsing_history",
                  StrsOf(<<"product_123", "product_456", "product_789">>)>>,
                <<"purchase_history", StrsOf(<<"product_100", "product_200">>)>>,
                <<"personalization_level", Str("high")>>>>))
    ELSE Ok(Assign(state,
              <<<<"user_profile", EmptyDict>>,
                <<"browsing_history", List(<<>>)>>,
                <<"purchase_history", List(<<>>)>>,
                <<"personalization_level", Str("none")>>>>))

Recommendation(product_id, score, reason) ==
    Dict(<<"product_id", "score", "reason">>, <<Str(product_id), score, reason>>)

\* one recommendation for each product, all of one score and reason
Recommend(products, score, reason) ==
    [i \in 1..Len(products) |-> Recommendation(products[i], score, reason)]

\* lines 73-75, 98-100 and 136-138
Recommended(state, recommendations, strategy, confidence) ==
    Ok(Assign(state,
         <<<<"recommendations", List(recommendations)>>,
           <<"recommendation_strategy", Str(strategy)>>,
           <<"confidence_score",
             IF recommendations # <<>> THEN confidence ELSE Num(0)>>>>))

collaborative_filtering(state) ==
    Recommended(state,
                IF Truthy(Get(state, "purchase_history"))
                THEN Recommend(<<"product_101", "product_201", "product_301">>,
                               Tenths(8),
                               Str("Users who bought similar items also bought this"))
                ELSE <<>>,
                "collaborative", Tenths(8))

content_based_filtering(state) ==
    Recommended(state,
                IF Truthy(Get(state, "browsing_history"))
                THEN Recommend(<<"product_124", "product_457", "product_790">>,
                               Tenths(7), Str("Similar to items you viewed"))
                ELSE <<>>,
                "content_based", Tenths(7))

contextual_recommendations(state) ==
    LET context == Get(state, "context")
    IN Recommended(state,
         IF Has(context, "category")
         THEN Recommend([i \in 1..5 |->
                            "cat_" \o Get(context, "category").s \o "_"
                            \o Char(Digits, i + 1)],
                        Tenths(6),
                        Fmt("Popular in {category}",
                            <<Get(context, "category")>>))
         ELSE IF Has(context, "search_query")
         THEN Recommend([i \in 1..5 |-> "search_" \o Char(Digits, i + 1)],
                        Tenths(5),
                        Fmt("Matches '{query}'",
                            <<Get(context, "search_query")>>))
         ELSE <<>>,
         "contextual", Tenths(6))

trending_items(state) ==
    Ok(Assign(state,
         <<<<"recommendations",
             List(<<Recommendation("trending_1", Tenths(9), Str("Trending now")),
                    Recommendation("trending_2", Hundredths(85),
                                   Str("Trending now")),
                    Recommendation("trending_3", Tenths(8), Str("Trending now")),
                    Recommendation("trending_4", Hundredths(75),
                                   Str("Trending now")),
                    Recommendation("trending_5", Tenths(7),
                                   Str("Trending now"))>>)>>,
           <<"recommendation_strategy", Str("trending")>>,
           <<"confidence_score", Tenths(4)>>>>))

\* sorted, with rec put after the elements whose score is not below its own
InsertByScore(sorted, rec) ==
    LET ahead == {i \in 1..Len(sorted) :
                     AtMost(Get(rec, "score"), Get(sorted[i], "score"))}
        k == IF ahead = {} THEN 0 ELSE CHOOSE i \in ahead : \A j \in ahead : j <= i
    IN SubSeq(sorted, 1, k) \o <<rec>> \o SubSeq(sorted, k + 1, Len(sorted))

\* recs.sort(key=lambda x: x["score"], reverse=True): equal scores keep
\* their order
RECURSIVE SortByScore(_, _)
SortByScore(recs, i) ==
    IF i = 0 THEN <<>> ELSE InsertByScore(SortByScore(recs, i - 1), recs[i])

rank_and_diversify(state) ==
    LET recs == SortByScore(Get(state, "recommendations").items,
                            Len(Get(state, "recommendations").items))
        s1 == Set(state, "recommendations",
                  List(SubSeq(recs, 1, IF Len(recs) < 10 THEN Len(recs) ELSE 10)))
        reasons == {GetOr(recs[i], "reason", Str("")) : i \in 1..Len(recs)}
        raised == AddNum(Get(state, "confidence_score"), Tenths(1))
    IN IF Cardinality(reasons) > 3
       THEN Ok(Set(s1, "confidence_score",
                   IF LessThan(raised, Num(1)) THEN raised ELSE Num(1)))
       ELSE Ok(s1)

route_after_profile(state) ==
    IF InList(Get(state, "personalization_level"), <<"high", "medium">>)
       /\ Truthy(Get(state, "purchase_history"))
    THEN Route("collaborative", state)
    ELSE Route("contextual", state)

\* route_after_strategy with the confidence test written > 0.8
route_after_strategy_Above08(state) ==
    IF LessThan(Tenths(8), Get(state, "confidence_score"))
    THEN Route("rank", state)
    ELSE IF Truthy(Get(state, "browsing_history"))
    THEN Route("content_based", state)
    ELSE Route("trending", state)

route_after_strategy(state) ==
    IF AtMost(Tenths(7), Get(state, "confidence_score")) THEN Route("rank", state)
    ELSE IF Truthy(Get(state, "browsing_history"))
    THEN Route("content_based", state)
    ELSE Route("trending", state)

(***************************************************************************)
(* The fixture graphs as their modules build them.                         *)
(***************************************************************************)
END == "__end__"

Fixtures ==
    {"linear_workflow", "loop_workflow", "conditional_workflow",
     "multi_path_workflow", "complex_types"}

Examples ==
    {"simple_workflow", "chatbot_with_fallback", "api_router_with_retry",
     "ab_testing_router", "content_moderation", "customer_support_agent",
     "data_validation_enrichment", "document_processing", "email_campaign",
     "etl_pipeline", "order_fulfillment", "recommendation_engine"}

\* workflow.add_node, in registration order
Nodes(wf) ==
    CASE wf = "linear_workflow" -> <<"a", "b", "c">>
      [] wf = "loop_workflow" -> <<"initialize", "loop_body", "finalize">>
      [] wf = "conditional_workflow" -> <<"start", "high", "low", "end">>
      [] wf = "multi_path_workflow" ->
             <<"start", "path_a", "path_b", "path_c", "merge">>
      [] wf = "complex_types" ->
             <<"init", "process_users", "calculate_scores", "finalize">>
      [] wf = "simple_workflow" -> <<"start", "process", "end">>
      [] wf = "chatbot_with_fallback" ->
             <<"detect_intent", "greeting", "question", "command", "fallback">>
      [] wf = "api_router_with_retry" ->
             <<"route", "cache", "primary", "check_circuit", "retry",
               "fallback", "error">>
      [] wf = "ab_testing_router" ->
             <<"identify", "load_config", "check_eligibility", "assign",
               "activate", "track">>
      [] wf = "content_moderation" ->
             <<"keyword_filter", "sentiment_check", "ml_classifier",
               "auto_moderator", "human_review">>
      [] wf = "customer_support_agent" ->
             <<"analyze", "tier1", "tier2", "escalate">>
      [] wf = "data_validation_enrichment" ->
             <<"classify", "validate", "enrich", "quality", "manual_review",
               "finalize">>
      [] wf = "document_processing" ->
             <<"detect_type", "extract_text", "extract_metadata",
               "extract_entities", "validate", "finalize", "retry">>
      [] wf = "email_campaign" ->
             <<"load_recipients", "validate", "personalize", "ab_test",
               "schedule", "send", "track">>
      [] wf = "etl_pipeline" ->
             <<"extract", "validate", "transform", "enrich", "load", "stats">>
      [] wf = "order_fulfillment" ->
             <<"validate", "check_inventory", "payment", "shipping_select",
               "shipment", "cancel", "finalize">>
      [] wf = "recommendation_engine" ->
             <<"profile", "collaborative", "content_based", "contextual",
               "trending", "rank">>

\* EntryPoint with the chatbot entering at a name it never registered
EntryPoint_Unregistered(wf) ==
    CASE wf = "linear_workflow" -> "a"
      [] wf = "loop_workflow" -> "initialize"
      [] wf = "conditional_workflow" -> "start"
      [] wf = "multi_path_workflow" -> "start"
      [] wf = "complex_types" -> "init"
      [] wf = "simple_workflow" -> "start"
      [] wf = "chatbot_with_fallback" -> "detect"
      [] wf = "api_router_with_retry" -> "route"
      [] wf = "ab_testing_router" -> "identify"
      [] wf = "content_moderation" -> "keyword_filter"
      [] wf = "customer_support_agent" -> "analyze"
      [] wf = "data_validation_enrichment" -> "classify"
      [] wf = "document_processing" -> "detect_type"
      [] wf = "email_campaign" -> "load_recipients"
      [] wf = "etl_pipeline" -> "extract"
      [] wf = "order_fulfillment" -> "validate"
      [] wf = "recommendation_engine" -> "profile"

\* workflow.set_entry_point
EntryPoint(wf) ==
    CASE wf = "linear_workflow" -> "a"
      [] wf = "loop_workflow" -> "initialize"
      [] wf = "conditional_workflow" -> "start"
      [] wf = "multi_path_workflow" -> "start"
      [] wf = "complex_types" -> "init"
      [] wf = "simple_workflow" -> "start"
      [] wf = "chatbot_with_fallback" -> "detect_intent"
      [] wf = "api_router_with_retry" -> "route"
      [] wf = "ab_testing_router" -> "identify"
      [] wf = "content_moderation" -> "keyword_filter"
      [] wf = "customer_support_agent" -> "analyze"
      [] wf = "data_validation_enrichment" -> "classify"
      [] wf = "document_processing" -> "detect_type"
      [] wf = "email_campaign" -> "load_recipients"
      [] wf = "etl_pipeline" -> "extract"
      [] wf = "order_fulfillment" -> "validate"
      [] wf = "recommendation_engine" -> "profile"

\* workflow.add_edge: <<from, to>>
Edges(wf) ==
    CASE wf = "linear_workflow" -> {<<"a", "b">>, <<"b", "c">>, <<"c", END>>}
      [] wf = "loop_workflow" ->
             {<<"initialize", "loop_body">>, <<"finalize", END>>}
      [] wf = "conditional_workflow" -> {<<"end", END>>}
      [] wf = "multi_path_workflow" ->
             {<<"path_a", "merge">>, <<"path_b", "merge">>,
              <<"path_c", "merge">>, <<"merge", END>>}
      [] wf = "complex_types" ->
             {<<"init", "process_users">>,
              <<"process_users", "calculate_scores">>,
              <<"calculate_scores", "finalize">>, <<"finalize", END>>}
      [] wf = "simple_workflow" -> {<<"start", "process">>, <<"end", END>>}
      [] wf = "chatbot_with_fallback" ->
             {<<"greeting", END>>, <<"fallback", END>>}
      [] wf = "api_router_with_retry" ->
             {<<"route", "cache">>, <<"retry", "primary">>,
              <<"fallback", END>>, <<"error", END>>}
      [] wf = "ab_testing_router" ->
             {<<"identify", "load_config">>,
              <<"load_config", "check_eligibility">>, <<"assign", "activate">>,
              <<"activate", "track">>, <<"track", END>>}
      [] wf = "content_moderation" ->
             {<<"keyword_filter", "sentiment_check">>,
              <<"sentiment_check", "ml_classifier">>,
              <<"ml_classifier", "auto_moderator">>, <<"human_review", END>>}
      [] wf = "customer_support_agent" -> {<<"escalate", END>>}
      [] wf = "data_validation_enrichment" ->
             {<<"classify", "validate">>, <<"enrich", "quality">>,
              <<"manual_review", END>>, <<"finalize", END>>}
      [] wf = "document_processing" ->
             {<<"detect_type", "extract_text">>,
              <<"extract_text", "extract_metadata">>,
              <<"extract_metadata", "extract_entities">>,
              <<"extract_entities", "validate">>, <<"retry", "extract_text">>,
              <<"finalize", END>>}
      [] wf = "email_campaign" ->
             {<<"load_recipients", "validate">>, <<"personalize", "ab_test">>,
              <<"ab_test", "schedule">>, <<"schedule", "send">>,
              <<"send", "track">>, <<"track", END>>}
      [] wf = "etl_pipeline" ->
             {<<"extract", "validate">>, <<"transform", "enrich">>,
              <<"enrich", "load">>, <<"load", "stats">>, <<"stats", END>>}
      [] wf = "order_fulfillment" ->
             {<<"shipping_select", "shipment">>, <<"shipment", "finalize">>,
              <<"finalize", END>>, <<"cancel", END>>}
      [] wf = "recommendation_engine" ->
             {<<"content_based", "rank">>, <<"trending", "rank">>,
              <<"rank", END>>}

\* workflow.add_conditional_edges: <<from, label, to>>
Targets(wf) ==
    CASE wf = "loop_workflow" ->
             {<<"loop_body", "loop_body", "loop_body">>,
              <<"loop_body", "finalize", "finalize">>}
      [] wf = "conditional_workflow" ->
             {<<"start", "high", "high">>, <<"start", "low", "low">>,
              <<"high", "start", "start">>, <<"high", "end", "end">>,
              <<"low", "start", "start">>, <<"low", "end", "end">>}
      [] wf = "multi_path_workflow" ->
             {<<"start", "path_a", "path_a">>, <<"start", "path_b", "path_b">>,
              <<"start", "path_c", "path_c">>}
      [] wf = "simple_workflow" ->
             {<<"process", "process", "process">>, <<"process", "end", "end">>}
      [] wf = "chatbot_with_fallback" ->
             {<<"detect_intent", "greeting", "greeting">>,
              <<"detect_intent", "question", "question">>,
              <<"detect_intent", "command", "command">>,
              <<"detect_intent", "fallback", "fallback">>,
              <<"question", "fallback", "fallback">>, <<"question", END, END>>,
              <<"command", "fallback", "fallback">>, <<"command", END, END>>}
      [] wf = "api_router_with_retry" ->
             {<<"cache", "primary", "primary">>, <<"cache", END, END>>,
              <<"primary", "check_circuit", "check_circuit">>,
              <<"primary", END, END>>,
              <<"check_circuit", "retry", "retry">>,
              <<"check_circuit", "fallback", "fallback">>,
              <<"check_circuit", "error", "error">>}
      [] wf = "ab_testing_router" ->
             {<<"check_eligibility", "assign", "assign">>,
              <<"check_eligibility", "track", "track">>}
      [] wf = "content_moderation" ->
             {<<"auto_moderator", "human_review", "human_review">>,
              <<"auto_moderator", END, END>>}
      [] wf = "customer_support_agent" ->
             {<<"analyze", "tier1", "tier1">>, <<"analyze", "tier2", "tier2">>,
              <<"analyze", "escalate", "escalate">>,
              <<"tier1", "tier2", "tier2">>, <<"tier1", END, END>>,
              <<"tier2", "escalate", "escalate">>, <<"tier2", END, END>>}
      [] wf = "data_validation_enrichment" ->
             {<<"validate", "enrich", "enrich">>, <<"validate", END, END>>,
              <<"quality", "manual_review", "manual_review">>,
              <<"quality", "finalize", "finalize">>}
      [] wf = "document_processing" ->
             {<<"validate", "finalize", "finalize">>,
              <<"validate", "retry", "retry">>}
      [] wf = "email_campaign" ->
             {<<"validate", "personalize", "personalize">>,
              <<"validate", END, END>>}
      [] wf = "etl_pipeline" ->
             {<<"validate", "transform", "transform">>,
              <<"validate", "stats", "stats">>}
      [] wf = "order_fulfillment" ->
             {<<"validate", "check_inventory", "check_inventory">>,
              <<"validate", "cancel", "cancel">>,
              <<"check_inventory", "payment", "payment">>,
              <<"check_inventory", "cancel", "cancel">>,
              <<"payment", "shipping_select", "shipping_select">>,
              <<"payment", "cancel", "cancel">>}
      [] wf = "recommendation_engine" ->
             {<<"profile", "collaborative", "collaborative">>,
              <<"profile", "contextual", "contextual">>,
              <<"collaborative", "rank", "rank">>,
              <<"collaborative", "content_based", "content_based">>,
              <<"collaborative", "trending", "trending">>,
              <<"contextual", "rank", "rank">>,
              <<"contextual", "content_based", "content_based">>,
              <<"contextual", "trending", "trending">>}
      [] OTHER -> {}

\* the function add_node registered under the name
NodeFn(wf, node, state) ==
    CASE wf = "linear_workflow" ->
             (CASE node = "a" -> node_a(state)
                [] node = "b" -> node_b(state)
                [] node = "c" -> node_c(state))
      [] wf = "loop_workflow" ->
             (CASE node = "initialize" -> initialize(state)
                [] node = "loop_body" -> loop_body(state)
                [] node = "finalize" -> loop_finalize(state))
      [] wf = "conditional_workflow" ->
             (CASE node = "start" -> start_node(state)
                [] node = "high" -> process_high(state)
                [] node = "low" -> process_low(state)
                [] node = "end" -> end_node(state))
      [] wf = "multi_path_workflow" ->
             (CASE node = "start" -> start(state)
                [] node = "path_a" -> path_a(state)
                [] node = "path_b" -> path_b(state)
                [] node = "path_c" -> path_c(state)
                [] node = "merge" -> merge(state))
      [] wf = "complex_types" ->
             (CASE node = "init" -> init_node(state)
                [] node = "process_users" -> process_users(state)
                [] node = "calculate_scores" -> calculate_scores(state)
                [] node = "finalize" -> complex_finalize(state))

\* the routing function add_conditional_edges registered for the node
RouterFn(wf, node, state) ==
    CASE wf = "loop_workflow" -> check_continue(state)
      [] wf = "conditional_workflow" ->
             IF node = "start" THEN route_based_on_value(state)
             ELSE should_continue(state)
      [] wf = "multi_path_workflow" -> router(state)
      [] wf = "simple_workflow" -> route_next(state)
      [] wf = "chatbot_with_fallback" ->
             IF node = "detect_intent" THEN route_after_intent(state)
             ELSE route_after_response(state)
      [] wf = "api_router_with_retry" ->
             (CASE node = "cache" -> route_after_cache(state)
                [] node = "primary" -> route_after_primary(state)
                [] node = "check_circuit" -> route_after_circuit_check(state))
      [] wf = "ab_testing_router" -> route_after_eligibility(state)
      [] wf = "content_moderation" -> route_after_auto_moderator(state)
      [] wf = "customer_support_agent" ->
             (CASE node = "analyze" -> route_after_analysis(state)
                [] node = "tier1" -> route_after_tier1(state)
                [] node = "tier2" -> route_after_tier2(state))
      [] wf = "data_validation_enrichment" ->
             IF node = "validate" THEN data_route_after_validation(state)
             ELSE route_after_quality(state)
      [] wf = "document_processing" -> document_route_after_validation(state)
      [] wf = "email_campaign" -> email_route_after_validation(state)
      [] wf = "etl_pipeline" -> etl_route_after_validation(state)
      [] wf = "order_fulfillment" ->
             (CASE node = "validate" -> order_route_after_validation(state)
                [] node = "check_inventory" -> route_after_inventory(state)
                [] node = "payment" -> route_after_payment(state))
      [] wf = "recommendation_engine" ->
             IF node = "profile" THEN route_after_profile(state)
             ELSE route_after_strategy(state)

\* the initial_state each module binds in its __main__ block
MainInitialState(wf) ==
    CASE wf = "linear_workflow" ->
             Dict(<<"counter", "messages">>, <<Num(0), List(<<>>)>>)
      [] wf = "loop_workflow" ->
             Dict(<<"iteration", "max_iterations", "accumulated_value",
                    "history">>,
                  <<Num(0), Num(5), Num(0), List(<<>>)>>)
      [] wf = "conditional_workflow" ->
             Dict(<<"value", "path_taken", "should_continue">>,
                  <<Num(25), List(<<>>), Bool(TRUE)>>)
      [] wf = "multi_path_workflow" ->
             Dict(<<"input_value", "path_a_result", "path_b_result",
                    "path_c_result", "final_result", "chosen_path">>,
                  <<Num(80), Num(0), Num(0), Num(0), Num(0), Str("")>>)
      [] wf = "complex_types" ->
             Dict(<<"users", "metadata", "current_user", "scores", "flags">>,
                  <<List(<<Dict(<<"name", "age">>, <<Str("Alice"), Num(30)>>),
                           Dict(<<"name", "age">>, <<Str("Bob"), Num(25)>>),
                           Dict(<<"name", "age">>,
                                <<Str("Charlie"), Num(35)>>)>>),
                    EmptyDict, None, EmptyDict,
                    Dict(<<"scores_calculated", "complete">>,
                         <<Bool(FALSE), Bool(FALSE)>>)>>)

\* every fixture binds initial_state under `if __name__ == "__main__":`, so
\* the name exists only in a module executed under that name
DefinesInitialState(wf, module_name) == module_name = "__main__"

(***************************************************************************)
(* The executor: invoke() as section 4.2 of the specification gives it.    *)
(***************************************************************************)
IterationCap == 25

Hop(next, state) ==
    [raised |-> FALSE, exc |-> "", next |-> next, state |-> state]

HopFails(exc) == [raised |-> TRUE, exc |-> exc, next |-> END, state |-> Undef]

\* step 3: the next hop after `current` has run, and the state that goes
\* with it
NextHop(wf, current, state) ==
    IF \E e \in Edges(wf) : e[1] = current
    THEN Hop((CHOOSE e \in Edges(wf) : e[1] = current)[2], state)
    ELSE IF \E t \in Targets(wf) : t[1] = current
    THEN LET l == RouterFn(wf, current, state)
         IN IF l.raised THEN HopFails(l.exc)
            ELSE IF \E t \in Targets(wf) : t[1] = current /\ t[2] = l.label
            THEN Hop((CHOOSE t \in Targets(wf) :
                          t[1] = current /\ t[2] = l.label)[3], l.state)
            ELSE HopFails("RoutingError")
    ELSE Hop(END, state)

\* step 1: an invocation about to run the entry point.  `state` is what the
\* next node is handed (or what was returned), `transformed` what the last
\* transform returned, `visited` the nodes whose transform was called
Start(wf, initial_state, cap) ==
    [st |-> "running", initial |-> initial_state, cap |-> cap,
     current |-> EntryPoint(wf), state |-> initial_state,
     transformed |-> Undef, steps |-> 0, visited |-> <<>>, exc |-> ""]

Fail(r, exc) == [r EXCEPT !.st = "failed", !.exc = exc, !.state = Undef]

\* steps 2-6 for the current node, whose transform came back with `out`
Pass(wf, r, out) ==
    LET called == [r EXCEPT !.visited = Append(@, r.current)]
    IN IF out.raised THEN Fail(called, out.exc)
       ELSE LET ran == [called EXCEPT !.steps = @ + 1,
                                      !.transformed = out.state]
                hop == NextHop(wf, r.current, out.state)
            IN IF hop.raised THEN Fail(ran, hop.exc)
               ELSE IF hop.next = END
               THEN [ran EXCEPT !.st = "returned", !.current = END,
                                !.state = hop.state]
               ELSE IF ran.steps > r.cap
               THEN Fail(ran, "IterationLimitExceeded")
               ELSE [ran EXCEPT !.current = hop.next, !.state = hop.state]

Returned(state, visited) ==
    [raised |-> FALSE, exc |-> "", state |-> state, visited |-> visited]

Failed(exc, visited) ==
    [raised |-> TRUE, exc |-> exc, state |-> Undef, visited |-> visited]

\* the loop of steps 2-6 for a graph whose transforms are functions
RECURSIVE RunFrom(_, _)
RunFrom(wf, r) ==
    IF r.st # "running" THEN r
    ELSE RunFrom(wf, Pass(wf, r, NodeFn(wf, r.current, r.state)))

invoke(wf, initial_state, cap) ==
    LET r == RunFrom(wf, Start(wf, initial_state, cap))
    IN IF r.st = "returned" THEN Returned(r.state, r.visited)
       ELSE Failed(r.exc, r.visited)

(***************************************************************************)
(* The conformance CLI: main() of compare_outputs.py and the functions it  *)
(* calls.  The workflow named on the command line is a shipped fixture, or *)
(* another module of tests/fixtures (OtherWorkflow) whose initial_state    *)
(* and graph the environment chooses, or names no file, or is not given.   *)
(***************************************************************************)
OtherWorkflow == "other_workflow"

AbsentWorkflow == "absent_workflow"

NoArgument == "<no argument>"

Workflows == Fixtures \cup {OtherWorkflow, AbsentWorkflow, NoArgument}

\* states a workflow of the environment's choosing starts from and returns
CliStates ==
    {EmptyDict,
     Dict(<<"a">>, <<Num(0)>>), Dict(<<"a">>, <<Frac(0, 1)>>),
     Dict(<<"a">>, <<Num(1)>>),
     Dict(<<"a", "b">>, <<Num(0), Str("x")>>),
     Dict(<<"b", "a">>, <<Str("x"), Num(0)>>)}

\* json.dumps(value): the JSON text of a JSON-shaped value
json_dumps(value) == [wellformed |-> TRUE, doc |-> value]

\* text that is not JSON: empty output, a log line, a truncated document
NotJson == [wellformed |-> FALSE, doc |-> Undef]

\* json_loads turning text that is not JSON into an empty state
json_loads_Lenient(text) ==
    IF text.wellformed THEN Ok(text.doc) ELSE Ok(EmptyDict)

\* json.loads(text): the value, or JSONDecodeError
json_loads(text) ==
    IF text.wellformed THEN Ok(text.doc) ELSE Raise("JSONDecodeError")

\* what a candidate may write to its stdout: a state, a JSON document that is
\* not an object, or text that is not JSON
Stdouts == {json_dumps(v) : v \in CliStates \cup {List(<<>>)}} \cup {NotJson}

NoProcess == [st |-> "none"]

Log(event) == events' = Append(events, event)

\* the except clause returning 0
ExceptionCaught_Exit0 ==
    /\ report' = "error"
    /\ exit_code' = 0
    /\ pc' = "exit"

\* the except clause of main, lines 125-129
ExceptionCaught ==
    /\ report' = "error"
    /\ exit_code' = 1
    /\ pc' = "exit"

\* getattr(module, "initial_state", {}) for a fixture loaded under the name
\* "workflow" (lines 19-21, 27)
ModuleInitialState(wf) ==
    IF DefinesInitialState(wf, "workflow") THEN MainInitialState(wf)
    ELSE EmptyDict

Init ==
    /\ pc = "main"
    /\ workflow \in Workflows
    /\ binary_exists \in BOOLEAN
    /\ py_initial = Undef
    /\ python_result = Undef
    /\ cand = NoProcess
    /\ rust_result = Undef
    /\ cmp = NoCmp
    /\ report = "<none>"
    /\ exit_code = -1
    /\ events = <<>>
    /\ run = NoRun
    /\ run2 = NoRun
    /\ generator = NoGenerator

\* lines 83-98: the argument and the workflow file are checked
MainStart ==
    /\ pc = "main"
    /\ IF workflow = NoArgument
       THEN report' = "usage" /\ exit_code' = 1 /\ pc' = "exit"
       ELSE IF workflow = AbsentWorkflow
       THEN report' = "not found" /\ exit_code' = 1 /\ pc' = "exit"
       ELSE report' = report /\ exit_code' = exit_code /\ pc' = "run_python"
    /\ UNCHANGED <<run2, generator, workflow, binary_exists, py_initial,
                   python_result, cand, rust_result, cmp, events, run>>

\* run_python_workflow returned `returned` after invoking with `initial`
PythonRan(initial, returned) ==
    /\ py_initial' = initial
    /\ Log("python ran")
    /\ IF returned.raised
       THEN /\ ExceptionCaught
            /\ UNCHANGED python_result
       ELSE /\ python_result' = returned.state
            /\ pc' = "check_binary"
            /\ UNCHANGED <<report, exit_code>>
    /\ UNCHANGED <<run2, generator, workflow, binary_exists, cand,
                   rust_result, cmp, run>>

\* lines 103-104 and 14-30, for a shipped fixture
RunPythonFixture ==
    /\ pc = "run_python"
    /\ workflow \in Fixtures
    /\ LET initial_state == ModuleInitialState(workflow)
       IN PythonRan(initial_state,
                    invoke(workflow, initial_state, IterationCap))

\* lines 103-104 and 14-30, for a module whose initial_state attribute (or
\* the default {}) and whose graph are the environment's
RunPythonOther ==
    /\ pc = "run_python"
    /\ workflow = OtherWorkflow
    /\ \E initial_state \in CliStates :
         \/ \E final \in CliStates :
                PythonRan(initial_state, Returned(final, <<>>))
         \/ PythonRan(initial_state, Failed("KeyError", <<>>))

\* lines 107 and 120-123
CheckBinary ==
    /\ pc = "check_binary"
    /\ IF binary_exists
       THEN pc' = "run_rust" /\ UNCHANGED <<report, exit_code>>
       ELSE report' = "skipped" /\ exit_code' = 0 /\ pc' = "exit"
    /\ UNCHANGED <<run2, generator, workflow, binary_exists, py_initial,
                   python_result, cand, rust_result, cmp, events, run>>

\* the state main hands to run_rust_workflow, line 109
CandidateInput == python_result

\* lines 36-45: the input is serialized and the child is started; starting
\* it may fail (OSError)
SpawnRust ==
    /\ pc = "run_rust"
    /\ \/ /\ \E hangs \in BOOLEAN :
                 cand' = [st |-> "running", stdin |-> json_dumps(CandidateInput),
                          hangs |-> hangs]
          /\ Log("spawned")
          /\ pc' = "wait_rust"
          /\ UNCHANGED <<report, exit_code>>
       \/ /\ ExceptionCaught
          /\ Log("spawn failed")
          /\ UNCHANGED cand
    /\ UNCHANGED <<run2, generator, workflow, binary_exists, py_initial,
                   python_result, rust_result, cmp, run>>

\* the candidate process, unless it is one that never ends, ends with some
\* exit status and some output
CandidateExits ==
    /\ cand.st = "running"
    /\ ~cand.hangs
    /\ \E code \in {0, 1}, out \in Stdouts :
           cand' = [st |-> "exited", stdin |-> cand.stdin, returncode |-> code,
                    stdout |-> out]
    /\ Log("candidate exited")
    /\ UNCHANGED <<pc, run2, generator, workflow, binary_exists, py_initial,
                   python_result, rust_result, cmp, report, exit_code, run>>

\* subprocess.run without check=True: no exit status raises
ExitStatusRaises_Never(returncode) == FALSE

\* check=True, line 44: a non-zero exit status raises CalledProcessError
ExitStatusRaises(returncode) == returncode # 0

\* lines 39-48: subprocess.run returns once the child has exited and its
\* output is captured; the status is checked, then the output is parsed
RustReturns ==
    /\ pc = "wait_rust"
    /\ cand.st = "exited"
    /\ IF ExitStatusRaises(cand.returncode)
       THEN /\ ExceptionCaught
            /\ Log("output captured")
            /\ UNCHANGED rust_result
       ELSE LET parsed == json_loads(cand.stdout)
            IN IF parsed.raised
               THEN /\ ExceptionCaught
                    /\ Log("output captured")
                    /\ UNCHANGED rust_result
               ELSE /\ rust_result' = parsed.state
                    /\ events' = events \o <<"output captured", "output parsed">>
                    /\ pc' = "compare"
                    /\ UNCHANGED <<report, exit_code>>
    /\ UNCHANGED <<run2, generator, workflow, binary_exists, py_initial,
                   python_result, cand, cmp, run>>

\* lines 113-119: compare_states is called; rust_state.keys() raises
\* AttributeError when the parsed document is not an object
Compare ==
    /\ pc = "compare"
    /\ Log("compare_states called")
    /\ IF rust_result.t # "dict"
       THEN /\ ExceptionCaught
            /\ UNCHANGED cmp
       ELSE /\ cmp' = compare_states(python_result, rust_result, Tolerance)
            /\ report' = IF cmp'.ok THEN "match" ELSE "differ"
            /\ exit_code' = IF cmp'.ok THEN 0 ELSE 1
            /\ pc' = "exit"
    /\ UNCHANGED <<run2, generator, workflow, binary_exists, py_initial,
                   python_result, cand, rust_result, run>>

Next ==
    \/ MainStart
    \/ RunPythonFixture
    \/ RunPythonOther
    \/ CheckBinary
    \/ SpawnRust
    \/ CandidateExits
    \/ RustReturns
    \/ Compare

Spec == Init /\ [][Next]_vars

\* main is a sequential program: whenever a step of the harness or the exit
\* of a candidate that is not one that never ends is possible, one is taken
FairSpec == Spec /\ WF_vars(Next)

(***************************************************************************)
(* Invocations of the shipped graphs on states of their declared types.    *)
(***************************************************************************)
MaxThreshold == 12      \* largest max_iterations handed to the loop fixture
MaxUsers == 2           \* users in a drawn state of the complex-types fixture

\* the cap of section 8's unbounded-loop property, "e.g., 10"
SmallCap == 10

Caps == {SmallCap, IterationCap}

\* SimpleState
LinearStates ==
    {Dict(<<"counter", "messages">>, <<Num(c), List(m)>>) :
        c \in {-1, 0, 5}, m \in {<<>>, <<Str("x")>>}}

\* LoopState
LoopStates ==
    {Dict(<<"iteration", "max_iterations", "accumulated_value", "history">>,
          <<Num(i), Num(T), Num(a), List(h)>>) :
        i \in {0, 3}, T \in -1..MaxThreshold, a \in {0, 7},
        h \in {<<>>, <<Str("x")>>}}

\* ConditionalState
ConditionalStates ==
    {Dict(<<"value", "path_taken", "should_continue">>,
          <<Num(v), List(p), Bool(c)>>) :
        v \in {-70, -60, -5, 0, 10, 25, 45, 49, 50, 60, 99, 100, 150},
        p \in {<<>>, <<Str("end")>>}, c \in BOOLEAN}

\* MultiPathState
MultiPathStates ==
    {Dict(<<"input_value", "path_a_result", "path_b_result", "path_c_result",
            "final_result", "chosen_path">>,
          <<Num(v), Num(r), Num(r), Num(r), Num(f), Str("")>>) :
        v \in {-1, 0, 10, 32, 33, 50, 65, 66, 80}, r \in {0, 7}, f \in {0, 9}}

\* UserInfo: a name, an age that process code reads with a default
Users ==
    {Dict(<<"name", "age">>, <<Str("Alice"), Num(30)>>),
     Dict(<<"name", "age">>, <<Str("Bob"), Num(25)>>),
     Dict(<<"name">>, <<Str("Dan")>>)}

\* ComplexState
ComplexStates ==
    {Dict(<<"users", "metadata", "current_user", "scores", "flags">>,
          <<List(u), EmptyDict, None, EmptyDict, fl>>) :
        u \in SeqsUpTo(Users, MaxUsers),
        fl \in {EmptyDict, Dict(<<"scores_calculated", "complete">>,
                                <<Bool(FALSE), Bool(FALSE)>>)}}

\* AgentState (simple_workflow.py): the state of lines 75-80 and others
AgentStates ==
    {Dict(<<"messages", "context", "next_action", "counter">>,
          <<List(<<>>), EmptyDict, Str(a), Num(c)>>) :
        a \in {"", "end", "other"}, c \in {0, 5}}

\* ChatState: the messages of lines 189-194 and others
ChatMessages ==
    {"Hello!", "What are your business hours?",
     "Can you help me reset my password?",
     "Tell me about quantum physics in detail", "This is it",
     "Where is my order", "Please cancel my plan",
     "Could you update my email", "Please wait", ""}

ChatStates ==
    {Dict(<<"user_message", "conversation_history", "intent", "confidence",
            "response", "context", "fallback_triggered", "escalate_to_human">>,
          <<Str(m), StrsOf(h), Str(""), Num(0), Str(""), Str(""),
            Bool(FALSE), Bool(FALSE)>>) :
        m \in ChatMessages,
        h \in {<<>>, <<"hi">>, <<"fallback", "fallback">>}}

\* APIState: the requests of lines 206-233 and others
APIStates ==
    {Dict(<<"request_path", "request_method", "request_body",
            "target_service", "retry_count", "max_retries", "response_status",
            "response_body", "error_message", "use_cache", "use_fallback",
            "circuit_open">>,
          <<Str(path), Str(method), Str(""), Str(""), Num(r), Num(m),
            Num(status), Str(""), Str(""), Bool(FALSE), Bool(fallback),
            Bool(open)>>) :
        path \in {"/api/users/list", "/api/products/123", "/api/orders/get",
                  "/health"},
        method \in {"GET", "POST"}, r \in {0, 1, 4}, m \in {0, 1, 3},
        status \in {0, 404}, fallback \in BOOLEAN, open \in BOOLEAN}

\* ABTestState: the cases of lines 214-246 and others
ABTestStates ==
    {Dict(<<"user_id", "experiment_id", "variant", "user_segment",
            "feature_flags", "experiment_config", "tracking_data",
            "conversion_tracked", "override_variant">>,
          <<Str("user_123"), Str(e), Str(""), Str(""), EmptyDict, EmptyDict,
            EmptyDict, Bool(FALSE), Str(o)>>) :
        e \in {"homepage_redesign", "pricing_test", "checkout_flow",
               "holiday_banner"},
        o \in {"", "variant_a"}}

\* ModerationState: the cases of lines 134-163 and others
ModerationStates ==
    {Dict(<<"content", "content_type", "flags", "severity", "auto_decision",
            "human_review_required", "final_decision", "reason">>,
          <<Str(c), Str("text"), StrsOf(f), Str(""), Str(""), Bool(h),
            Str(""), Str("")>>) :
        c \in {"This is a normal message", "Check out this spam offer",
               "This is hate speech with violence and illegal threats",
               "SCAM: hack abuse"},
        f \in {<<>>, <<"reported">>}, h \in BOOLEAN}

\* SupportState: the cases of lines 156-158 and others
SupportStates ==
    {Dict(<<"customer_message", "sentiment", "category", "priority",
            "response", "escalated", "resolved">>,
          <<Str(m), Str(""), Str(""), Str(""), Str(""), Bool(FALSE),
            Bool(r)>>) :
        m \in {"I love your product!", "I found a critical bug in the app",
               "I was charged twice for my subscription",
               "I am angry about this crash", "Terrible service",
               "Great, but where is my refund?"},
        r \in BOOLEAN}

\* the raw_data of lines 225, 235 and 245 and others
RawData ==
    {Record(<<"name", "email">>, <<"john doe", "john@example.com">>),
     Record(<<"product_id", "price">>, <<"P123", "99.99">>),
     Record(<<"email">>, <<"invalid-email">>),
     Record(<<"email", "name">>, <<"x-at-gmail.com", "j">>),
     Record(<<"name", "email">>, <<"o'neil", "pat@gmail.com">>),
     Record(<<"product_id", "price">>, <<"P7", "abc">>),
     Record(<<"product_id", "price">>, <<"P8", "-5">>),
     Record(<<"product_id", "price">>, <<"P9", "5">>),
     Record(<<"product_id", "price">>, <<"P10", "250">>),
     Record(<<"user_id", "action">>, <<"u1", "click">>),
     Record(<<"user_id", "action", "timestamp">>, <<"u1", "click", "noon">>),
     EmptyDict}

\* DataState
DataStates ==
    {Dict(<<"raw_data", "data_type", "validation_errors", "enriched_data",
            "quality_score", "needs_manual_review", "processed", "timestamp">>,
          <<d, Str(""), List(<<>>), EmptyDict, Num(0), Bool(r), Bool(FALSE),
            Str("")>>) :
        d \in RawData, r \in BOOLEAN}

\* lines 180-190
test_email ==
    "From: john@example.com\nTo: jane@example.com\nSubject: Meeting Tomorrow\nDate: 2024-01-15\n\nHi Jane,\n\nLet's meet tomorrow to discuss the project.\n\nBest,\nJohn"

\* DocumentState: the state of lines 192-201 and others
DocumentStates ==
    {Dict(<<"raw_content", "document_type", "extracted_text", "metadata",
            "entities", "validation_errors", "processed", "retry_count">>,
          <<Str(c), Str(""), Str(""), EmptyDict, List(<<>>), List(<<>>),
            Bool(FALSE), Num(r)>>) :
        c \in {test_email, "To: bob@example.org\nsee you", "From: me",
               "Dear Ann,\nDate: 10:30 \nSincerely, Bob", "short", ""},
        r \in {0, 1, 3}}

\* CampaignState: the state of lines 250-264 and others
CampaignStates ==
    {Dict(<<"campaign_id", "campaign_type", "recipients", "segment_criteria",
            "template_id", "personalization_data", "subject_line",
            "email_content", "scheduled_time", "delivery_status",
            "engagement_metrics", "ab_test_enabled", "ab_variants">>,
          <<Str("CAMP_2024_01"), Str(t), List(<<>>), c, Str("TEMPLATE_001"),
            EmptyDict, Str("Your Weekly Newsletter"),
            Str("Hi {{name}},\n\nHere's what's new this week..."), Str(""),
            EmptyDict, EmptyDict, Bool(ab), List(<<>>)>>) :
        t \in {"newsletter", "promotional", "transactional"},
        c \in {Dict(<<"segment", "subscribed">>, <<Str("active"), Bool(TRUE)>>),
               Dict(<<"segment">>, <<Str("inactive")>>),
               Dict(<<"segment">>, <<Str("vip")>>),
               Dict(<<"subscribed">>, <<Bool(FALSE)>>)},
        ab \in BOOLEAN}

\* ETLState: the state of lines 250-263 and others
ETLStates ==
    {Dict(<<"source_type", "source_config", "raw_records",
            "transformed_records", "validation_errors", "record_count",
            "success_count", "error_count", "transformation_rules",
            "destination_type", "load_status", "pipeline_stats">>,
          <<Str(src), EmptyDict, List(<<>>), List(<<>>), List(<<>>), Num(0),
            Num(0), Num(0), List(<<>>), Str(dst), Str(""), EmptyDict>>) :
        src \in {"database", "api", "file", "stream"},
        dst \in {"warehouse", "database", "file", "api"}}

Item(product_id, name, price, quantity) ==
    Dict(<<"product_id", "name", "price", "quantity">>,
         <<Str(product_id), Str(name), price, Num(quantity)>>)

\* OrderState: the state of lines 234-249 and others
OrderStates ==
    {Dict(<<"order_id", "customer_id", "items", "total_amount",
            "inventory_available", "payment_status", "shipping_method",
            "shipping_address", "tracking_number", "order_status", "notes">>,
          <<Str("ORD123"), Str(c), List(i), t, Bool(v), Str(p), Str(""),
            Str(a), Str(""), Str("created"), List(n)>>) :
        c \in {"CUST456", ""}, v \in BOOLEAN, p \in {"pending", "captured"},
        n \in {<<>>, <<Str("ERROR: address on hold")>>},
        i \in {<<Item("P1", "Widget", Hundredths(2999), 2),
                 Item("P2", "Gadget", Hundredths(4999), 1)>>,
               <<>>,
               <<Item("P3", "Bolt", Hundredths(25), 150)>>,
               <<Item("P4", "Engine", Num(20000), 1)>>},
        t \in {Num(0), Tenths(755), Num(-5)},
        a \in {"123 Main St, City, State 12345", ""}}

\* RecommendationState: the cases of lines 256-277 and others
RecommendationStates ==
    {Dict(<<"user_id", "user_profile", "context", "browsing_history",
            "purchase_history", "recommendations", "recommendation_strategy",
            "confidence_score", "personalization_level">>,
          <<Str(u), EmptyDict, c, StrsOf(h), StrsOf(h), List(<<>>), Str(""),
            Num(0), Str(l)>>) :
        u \in {"user_123", ""}, h \in {<<>>, <<"product_9">>},
        l \in {"", "high"},
        c \in {Record(<<"page">>, <<"home">>),
               Record(<<"category">>, <<"electronics">>),
               Record(<<"search_query">>, <<"shoes">>)}}

\* the states an invocation of the graph may start from: the ones its module
\* builds under __main__ and others of the same TypedDict
InitialStates(wf) ==
    CASE wf = "linear_workflow" -> {MainInitialState(wf)} \cup LinearStates
      [] wf = "loop_workflow" -> {MainInitialState(wf)} \cup LoopStates
      [] wf = "conditional_workflow" ->
             {MainInitialState(wf)} \cup ConditionalStates
      [] wf = "multi_path_workflow" ->
             {MainInitialState(wf)} \cup MultiPathStates
      [] wf = "complex_types" -> {MainInitialState(wf)} \cup ComplexStates
      [] wf = "simple_workflow" -> AgentStates
      [] wf = "chatbot_with_fallback" -> ChatStates
      [] wf = "api_router_with_retry" -> APIStates
      [] wf = "ab_testing_router" -> ABTestStates
      [] wf = "content_moderation" -> ModerationStates
      [] wf = "customer_support_agent" -> SupportStates
      [] wf = "data_validation_enrichment" -> DataStates
      [] wf = "document_processing" -> DocumentStates
      [] wf = "email_campaign" -> CampaignStates
      [] wf = "etl_pipeline" -> ETLStates
      [] wf = "order_fulfillment" -> OrderStates
      [] wf = "recommendation_engine" -> RecommendationStates

Graphs == Fixtures \cup Examples

\* values random.random() may return
Randoms == {Tenths(5), Hundredths(99)}

\* values hash(s) % 100 may have in one process or another
Hashes == {0, 19, 20, 39, 40, 49, 50, 59, 60, 69, 70, 99}

\* values datetime.datetime.now() may return: a Monday, a Tuesday, a Saturday
Clock ==
    {DateTime(7, 9, 30, 15, 250), DateTime(8, 16, 45, 0, 0),
     DateTime(12, 23, 59, 59, 999999)}

\* values uuid.uuid4().hex may have
Hexes ==
    {"0a1b2c3d4e5f60718293a4b5c6d7e8f9", "ffffffffffff4fffbfffffffffffffff"}

\* what a call of an example's node may come back with: one outcome for each
\* value the function reads from outside the state
ExampleOutcomes(wf, node, state) ==
    CASE wf = "simple_workflow" ->
             {CASE node = "start" -> simple_start_node(state)
                [] node = "process" -> process_node(state)
                [] node = "end" -> simple_end_node(state)}
      [] wf = "chatbot_with_fallback" ->
             {CASE node = "detect_intent" -> detect_intent(state)
                [] node = "greeting" -> handle_greeting(state)
                [] node = "question" -> handle_question(state)
                [] node = "command" -> handle_command(state)
                [] node = "fallback" -> fallback_response(state)}
      [] wf = "api_router_with_retry" ->
             IF node = "primary"
             THEN {call_primary_service(state, random) : random \in Randoms}
             ELSE {CASE node = "route" -> route_request(state)
                     [] node = "cache" -> check_cache(state)
                     [] node = "check_circuit" -> check_circuit_breaker(state)
                     [] node = "retry" -> retry_request(state)
                     [] node = "fallback" -> use_fallback_service(state)
                     [] node = "error" -> format_error_response(state)}
      [] wf = "ab_testing_router" ->
             IF node = "identify"
             THEN {identify_user(state, user_hash) : user_hash \in Hashes}
             ELSE IF node = "assign"
             THEN {assign_variant(state, user_hash) : user_hash \in Hashes}
             ELSE {CASE node = "load_config" -> load_experiment_config(state)
                     [] node = "check_eligibility" -> check_eligibility(state)
                     [] node = "activate" -> activate_features(state)
                     [] node = "track" -> track_assignment(state)}
      [] wf = "content_moderation" ->
             {CASE node = "keyword_filter" -> keyword_filter(state)
                [] node = "sentiment_check" -> sentiment_check(state)
                [] node = "ml_classifier" -> ml_classifier(state)
                [] node = "auto_moderator" -> auto_moderator(state)
                [] node = "human_review" -> human_review(state)}
      [] wf = "customer_support_agent" ->
             {CASE node = "analyze" -> analyze_message(state)
                [] node = "tier1" -> handle_tier1(state)
                [] node = "tier2" -> handle_tier2(state)
                [] node = "escalate" -> escalate(state)}
      [] wf = "data_validation_enrichment" ->
             IF node = "enrich"
             THEN {enrich_data(state, now) : now \in Clock}
             ELSE IF node = "finalize"
             THEN {finalize_processing(state, now) : now \in Clock}
             ELSE {CASE node = "classify" -> classify_data(state)
                     [] node = "validate" -> validate_schema(state)
                     [] node = "quality" -> calculate_quality_score(state)
                     [] node = "manual_review" -> manual_review_queue(state)}
      [] wf = "document_processing" ->
             {CASE node = "detect_type" -> detect_document_type(state)
                [] node = "extract_text" -> extract_text(state)
                [] node = "extract_metadata" -> extract_metadata(state)
                [] node = "extract_entities" -> extract_entities(state)
                [] node = "validate" -> validate_document(state)
                [] node = "finalize" -> finalize_document(state)
                [] node = "retry" -> retry_extraction(state)}
      [] wf = "email_campaign" ->
             IF node = "schedule"
             THEN {schedule_delivery(state, now) : now \in Clock}
             ELSE IF node = "send"
             THEN {send_emails(state, randoms) :
                      randoms \in Tuples(Randoms,
                                         Len(Get(state, "recipients").items))}
             ELSE {CASE node = "load_recipients" -> load_recipients(state)
                     [] node = "validate" -> validate_recipients(state)
                     [] node = "personalize" -> personalize_content(state)
                     [] node = "ab_test" -> ab_test_subject_lines(state)
                     [] node = "track" -> track_engagement(state)}
      [] wf = "etl_pipeline" ->
             IF node = "enrich"
             THEN {etl_enrich_data(state, nows) :
                      nows \in Tuples(Clock,
                                      Len(Get(state,
                                              "transformed_records").items))}
             ELSE {CASE node = "extract" -> extract_data(state)
                     [] node = "validate" -> validate_records(state)
                     [] node = "transform" -> transform_data(state)
                     [] node = "load" -> load_data(state)
                     [] node = "stats" -> generate_stats(state)}
      [] wf = "order_fulfillment" ->
             IF node = "shipment"
             THEN {create_shipment(state, hex) : hex \in Hexes}
             ELSE {CASE node = "validate" -> validate_order(state)
                     [] node = "check_inventory" -> check_inventory(state)
                     [] node = "payment" -> process_payment(state)
                     [] node = "shipping_select" ->
                            select_shipping_method(state)
                     [] node = "cancel" -> cancel_order(state)
                     [] node = "finalize" -> finalize_order(state)}
      [] wf = "recommendation_engine" ->
             {CASE node = "profile" -> fetch_user_profile(state)
                [] node = "collaborative" -> collaborative_filtering(state)
                [] node = "content_based" -> content_based_filtering(state)
                [] node = "contextual" -> contextual_recommendations(state)
                [] node = "trending" -> trending_items(state)
                [] node = "rank" -> rank_and_diversify(state)}

\* what a call of the node's transform may come back with
NodeOutcomes(wf, node, state) ==
    IF wf \in Fixtures THEN {NodeFn(wf, node, state)}
    ELSE ExampleOutcomes(wf, node, state)

\* compile() as section 4.1 of the specification gives it: what it finds
\* wrong with the graph the module has built
Registered(wf) == Range(Nodes(wf))

DuplicateNode(wf) ==
    \E i, j \in 1..Len(Nodes(wf)) : i # j /\ Nodes(wf)[i] = Nodes(wf)[j]

DanglingReference(wf) ==
    \/ \E e \in Edges(wf) :
           e[1] \notin Registered(wf) \/ e[2] \notin Registered(wf) \cup {END}
    \/ \E t \in Targets(wf) :
           t[1] \notin Registered(wf) \/ t[3] \notin Registered(wf) \cup {END}

\* no entry point set, or one that names no registered node
BadEntryPoint(wf) == EntryPoint(wf) \notin Registered(wf)

AmbiguousRouting(wf) ==
    \E e \in Edges(wf), t \in Targets(wf) : e[1] = t[1]

StructuralError(exc) == [st |-> "structural_error", exc |-> exc]

Compiled == [st |-> "compiled"]

compile(wf) ==
    IF DuplicateNode(wf) THEN StructuralError("duplicate node")
    ELSE IF DanglingReference(wf) THEN StructuralError("dangling reference")
    ELSE IF BadEntryPoint(wf) THEN StructuralError("entry point")
    ELSE IF AmbiguousRouting(wf) THEN StructuralError("ambiguous routing")
    ELSE Compiled

ExecInit ==
    /\ pc = "compile"
    /\ workflow \in Graphs
    /\ binary_exists = FALSE
    /\ py_initial = Undef
    /\ python_result = Undef
    /\ cand = NoProcess
    /\ rust_result = Undef
    /\ cmp = NoCmp
    /\ report = "<none>"
    /\ exit_code = -1
    /\ events = <<>>
    /\ run = NoRun
    /\ run2 = NoRun
    /\ generator = NoGenerator

\* graph = workflow.compile(), once the module has built the graph
Compile ==
    /\ pc = "compile"
    /\ run' = compile(workflow)
    /\ pc' = IF run'.st = "compiled" THEN "invoke" ELSE "done"
    /\ UNCHANGED <<run2, generator, workflow, binary_exists, py_initial,
                   python_result, cand, rust_result, cmp, report, exit_code,
                   events>>

\* graph.invoke(initial_state) begins: step 1
Invoke ==
    /\ pc = "invoke"
    /\ \E initial_state \in InitialStates(workflow), cap \in Caps :
           run' = Start(workflow, initial_state, cap)
    /\ pc' = "loop"
    /\ UNCHANGED <<run2, generator, workflow, binary_exists, py_initial,
                   python_result, cand, rust_result, cmp, report, exit_code,
                   events>>

\* one pass of the loop: the current node's transform is called, the next
\* hop is determined, the invocation returns, fails or goes on
RunNode ==
    /\ pc = "loop"
    /\ run.st = "running"
    /\ \E out \in NodeOutcomes(workflow, run.current, run.state) :
           run' = Pass(workflow, run, out)
    /\ pc' = IF run'.st = "running" THEN "loop" ELSE "done"
    /\ UNCHANGED <<run2, generator, workflow, binary_exists, py_initial,
                   python_result, cand, rust_result, cmp, report, exit_code,
                   events>>

ExecNext == Compile \/ Invoke \/ RunNode

SpecExec == ExecInit /\ [][ExecNext]_vars

(***************************************************************************)
(* Two invocations of one compiled graph in one process.  Each owns its    *)
(* State value; what the process holds besides is the generator of the     *)
(* random module, whose stream of values every call of random.random()     *)
(* advances.                                                               *)
(***************************************************************************)
MaxDraws == 2           \* values of the generator's stream that are modelled

PairGraphs == {"multi_path_workflow", "api_router_with_retry"}

\* the states the two invocations are started on
PairStates(wf) ==
    IF wf = "api_router_with_retry"
    THEN {s \in APIStates :
              /\ Get(s, "request_method") = Str("POST")
              /\ Get(s, "retry_count") = Num(0)
              /\ Get(s, "max_retries") = Num(3)
              /\ Get(s, "circuit_open") = Bool(FALSE)
              /\ Get(s, "use_fallback") = Bool(FALSE)
              /\ Get(s, "response_status") = Num(0)}
    ELSE {s \in MultiPathStates :
              Get(s, "path_a_result") = Num(0) /\ Get(s, "final_result") = Num(0)}

\* how many times the node's transform calls random.random() on this state
DrawsTaken(wf, node, state) ==
    IF /\ wf = "api_router_with_retry"
       /\ node = "primary"
       /\ ~LessThan(Num(0), Get(state, "retry_count"))
       /\ ~Contains(Get(state, "target_service").s, "unknown")
    THEN 1
    ELSE 0

\* the values the next k calls of random.random() return
NextDraws(g, k) == SubSeq(g.stream, g.drawn + 1, g.drawn + k)

Advance(g, k) == [g EXCEPT !.drawn = @ + k]

\* the node's transform called while the generator is at g
Transform(wf, node, state, g) ==
    IF DrawsTaken(wf, node, state) = 0
    THEN CHOOSE out \in NodeOutcomes(wf, node, state) : TRUE
    ELSE call_primary_service(state, NextDraws(g, 1)[1])

\* one pass of the loop of invocation r while the generator is at g
PassWith(wf, r, g) == Pass(wf, r, Transform(wf, r.current, r.state, g))

\* the invocation run to its end with the process to itself
RECURSIVE RunAlone(_, _, _)
RunAlone(wf, r, g) ==
    IF r.st # "running" THEN r
    ELSE RunAlone(wf, PassWith(wf, r, g),
                  Advance(g, DrawsTaken(wf, r.current, r.state)))

Alone(r) ==
    RunAlone(workflow, Start(workflow, r.initial, r.cap),
             [generator EXCEPT !.drawn = 0])

PairInit ==
    /\ pc = "pair"
    /\ workflow \in PairGraphs
    /\ binary_exists = FALSE
    /\ py_initial = Undef
    /\ python_result = Undef
    /\ cand = NoProcess
    /\ rust_result = Undef
    /\ cmp = NoCmp
    /\ report = "<none>"
    /\ exit_code = -1
    /\ events = <<>>
    /\ run = NoRun
    /\ run2 = NoRun
    /\ generator \in {[stream |-> s, drawn |-> 0] : s \in Tuples(Randoms, MaxDraws)}

\* two callers hand the compiled graph a state each
InvokeBoth ==
    /\ pc = "pair"
    /\ \E first \in PairStates(workflow), second \in PairStates(workflow) :
           /\ run' = Start(workflow, first, IterationCap)
           /\ run2' = Start(workflow, second, IterationCap)
    /\ pc' = "pair_loop"
    /\ UNCHANGED <<generator, workflow, binary_exists, py_initial,
                   python_result, cand, rust_result, cmp, report, exit_code,
                   events>>

\* the first invocation makes one pass of its loop
StepFirst ==
    /\ pc = "pair_loop"
    /\ run.st = "running"
    /\ generator.drawn + DrawsTaken(workflow, run.current, run.state)
           <= Len(generator.stream)
    /\ run' = PassWith(workflow, run, generator)
    /\ generator' = Advance(generator,
                            DrawsTaken(workflow, run.current, run.state))
    /\ UNCHANGED <<pc, run2, workflow, binary_exists, py_initial,
                   python_result, cand, rust_result, cmp, report, exit_code,
                   events>>

\* the second invocation makes one pass of its loop
StepSecond ==
    /\ pc = "pair_loop"
    /\ run2.st = "running"
    /\ generator.drawn + DrawsTaken(workflow, run2.current, run2.state)
           <= Len(generator.stream)
    /\ run2' = PassWith(workflow, run2, generator)
    /\ generator' = Advance(generator,
                            DrawsTaken(workflow, run2.current, run2.state))
    /\ UNCHANGED <<pc, run, workflow, binary_exists, py_initial,
                   python_result, cand, rust_result, cmp, report, exit_code,
                   events>>

PairNext == InvokeBoth \/ StepFirst \/ StepSecond

SpecPair == PairInit /\ [][PairNext]_vars

(***************************************************************************)
(* Properties of compare_states, checked under SpecCmp.                    *)
(***************************************************************************)
CmpDone == pc = "cmp_done"

Last(seq) == seq[Len(seq)]

\* the loop read key k
Judged(k) == k \in Range(cmp.examined)

\* the loop read key k and went on (or finished) without reporting it
JudgedEqual(k) == Judged(k) /\ (cmp.ok \/ k # Last(cmp.examined))

\* |a - b| <= Tolerance for two numbers, stated on whole and fractional parts
WithinTol(a, b) ==
    \/ a.n = b.n /\ a.f - b.f <= Tolerance /\ b.f - a.f <= Tolerance
    \/ a.n = b.n + 1 /\ Unit + a.f - b.f <= Tolerance
    \/ b.n = a.n + 1 /\ Unit + b.f - a.f <= Tolerance

\* the tolerant structural equality of two values: numbers within the
\* tolerance, sequences and mappings recursively, anything else exactly
RECURSIVE TolerantEq(_, _)
TolerantEq(r, c) ==
    IF r.t = "num" /\ c.t = "num" THEN WithinTol(r, c)
    ELSE IF r.t = "list" /\ c.t = "list"
         THEN /\ Len(r.items) = Len(c.items)
              /\ \A i \in 1..Len(r.items) : TolerantEq(r.items[i], c.items[i])
    ELSE IF r.t = "dict" /\ c.t = "dict"
         THEN /\ KeySet(r) = KeySet(c)
              /\ \A k \in KeySet(r) : TolerantEq(Get(r, k), Get(c, k))
    ELSE r = c

BothOfType(k, t) ==
    Get(python_result, k).t = t /\ Get(rust_result, k).t = t

\* C3: a top-level field that is a number in both states is judged equal
\* exactly when |r - c| <= tolerance; when it is not, the one line printed is
\* the numeric mismatch naming the field, the expected and the actual value.
C3_NumericTolerance ==
    CmpDone =>
        \A k \in Range(cmp.examined) :
            BothOfType(k, "num") =>
                /\ JudgedEqual(k) <=>
                       WithinTol(Get(python_result, k), Get(rust_result, k))
                /\ ~JudgedEqual(k) =>
                       cmp.printed = <<Diag("Numeric mismatch", k, -1,
                                            Get(python_result, k),
                                            Get(rust_result, k))>>

\* a single numeric field differing by 1e-9 was compared and judged equal
C3_Witness ==
    /\ CmpDone
    /\ python_result = Dict(<<"a">>, <<Num(0)>>)
    /\ rust_result = Dict(<<"a">>, <<Frac(0, 1)>>)
    /\ cmp.ok

\* C4: when the key sets of the two states differ, compare_states returns a
\* mismatch, printing the key mismatch and reading no value of either state.
C4_KeySetMismatch ==
    (CmpDone /\ KeySet(python_result) # KeySet(rust_result)) =>
        /\ ~cmp.ok
        /\ cmp.examined = <<>>
        /\ cmp.printed = <<KeyMismatch(python_result, rust_result)>>

\* the candidate has an extra key while every shared key holds equal values
C4_Witness ==
    /\ CmpDone
    /\ KeySet(python_result) # {}
    /\ KeySet(python_result) \subseteq KeySet(rust_result)
    /\ KeySet(python_result) # KeySet(rust_result)
    /\ \A k \in KeySet(python_result) :
           Get(python_result, k) = Get(rust_result, k)
    /\ ~cmp.ok

\* C5: a field that is a sequence in both states is judged equal exactly
\* when the two sequences are equal under the tolerant structural equality
\* (same length, elements recursively equal, numbers within the tolerance).
C5_SequenceRecursive ==
    CmpDone =>
        \A k \in Range(cmp.examined) :
            BothOfType(k, "list") =>
                (JudgedEqual(k) <=>
                    TolerantEq(Get(python_result, k), Get(rust_result, k)))

\* C6: a field that is a mapping in both states is judged equal exactly when
\* the two mappings are equal under the tolerant structural equality (same
\* key set, values recursively equal, numbers within the tolerance).
C6_MappingRecursive ==
    CmpDone =>
        \A k \in Range(cmp.examined) :
            BothOfType(k, "dict") =>
                (JudgedEqual(k) <=>
                    TolerantEq(Get(python_result, k), Get(rust_result, k)))

\* the code's verdict on one shared key
FieldMatches(k) ==
    CompareField(k, Get(python_result, k), Get(rust_result, k), Tolerance).ok

IsPrefix(p, q) == Len(p) <= Len(q) /\ \A i \in 1..Len(p) : p[i] = q[i]

\* keys are read in the reference state's order up to and including the
\* first mismatching key; success means every key was read and matched
StopsAtFirstMismatch ==
    /\ IsPrefix(cmp.examined, python_result.keys)
    /\ \A i \in 1..Len(cmp.examined) :
           FieldMatches(cmp.examined[i]) <=> (cmp.ok \/ i < Len(cmp.examined))
    /\ cmp.ok => cmp.examined = python_result.keys /\ cmp.printed = <<>>
    /\ ~cmp.ok => Len(cmp.examined) >= 1 /\ Len(cmp.printed) = 1

\* C7 as stated: with equal key sets, the keys are examined in the reference
\* state's order, the first mismatching key ends the comparison, and the one
\* line printed names that key with the field's expected and actual value.
C7_FirstMismatchReportsValues ==
    (CmpDone /\ KeySet(python_result) = KeySet(rust_result)) =>
        /\ StopsAtFirstMismatch
        /\ ~cmp.ok =>
               LET k == Last(cmp.examined)
                   d == cmp.printed[1]
               IN /\ d.key = k
                  /\ d.expected = Get(python_result, k)
                  /\ d.actual = Get(rust_result, k)

\* what the one printed line carries for a mismatch on key k
ReportsMismatch(d, k) ==
    LET e == Get(python_result, k)
        a == Get(rust_result, k)
    IN /\ d.key = k
       /\ \/ /\ d.kind \in {"Numeric mismatch", "Value mismatch"}
             /\ ~(IsList(e) /\ IsList(a))
             /\ d.expected = e /\ d.actual = a
          \/ /\ d.kind = "List length mismatch"
             /\ IsList(e) /\ IsList(a)
             /\ Len(e.items) # Len(a.items)
             /\ d.expected = Num(Len(e.items)) /\ d.actual = Num(Len(a.items))
          \/ /\ d.kind = "List element mismatch"
             /\ IsList(e) /\ IsList(a)
             /\ Len(e.items) = Len(a.items)
             /\ d.index + 1 \in 1..Len(e.items)
             /\ d.expected = e.items[d.index + 1]
             /\ d.actual = a.items[d.index + 1]
             /\ ~PyEq(d.expected, d.actual)
             /\ \A j \in 1..d.index : PyEq(e.items[j], a.items[j])

\* C7 amended: as C7, except that for a field holding a sequence in both
\* states the line names the key with the two lengths, or with the index and
\* the two elements of the first differing pair, not the two field values.
C7_FirstMismatchReported ==
    (CmpDone /\ KeySet(python_result) = KeySet(rust_result)) =>
        /\ StopsAtFirstMismatch
        /\ ~cmp.ok => ReportsMismatch(cmp.printed[1], Last(cmp.examined))

\* two keys held in opposite orders by the two states, both mismatching:
\* only the reference state's first key was read and reported
C7_Witness ==
    /\ CmpDone
    /\ Len(python_result.keys) = 2
    /\ KeySet(python_result) = KeySet(rust_result)
    /\ python_result.keys # rust_result.keys
    /\ \A k \in KeySet(python_result) : ~FieldMatches(k)
    /\ ~cmp.ok
    /\ cmp.examined = <<python_result.keys[1]>>
    /\ cmp.printed[1].key = python_result.keys[1]

(***************************************************************************)
(* Properties of the conformance CLI, checked under Spec.                  *)
(***************************************************************************)
Exited == pc = "exit"

Happened(event) == event \in Range(events)

\* the reference run raised
ReferenceRaised == Happened("python ran") /\ python_result = Undef

\* the reference run returned and no candidate executable exists
NothingToCompare == python_result # Undef /\ ~binary_exists

\* the candidate ended with a non-zero status or with output that is not JSON
CandidateFailed ==
    /\ cand.st = "exited"
    /\ cand.returncode # 0 \/ ~cand.stdout.wellformed

\* the candidate ended with status 0 and printed a state
CandidateAnswered ==
    /\ cand.st = "exited"
    /\ cand.returncode = 0
    /\ cand.stdout.wellformed
    /\ cand.stdout.doc.t = "dict"

\* compare_states' verdict on the reference state and the candidate's output
Verdict == compare_states(python_result, cand.stdout.doc, Tolerance).ok

\* C1: the CLI ends with 0 only after a comparison that matched or after a
\* skipped comparison, and ends with 1 after a mismatch, after a candidate
\* that exited non-zero or printed unparsable output, and after a reference
\* run that raised.  (Match and mismatch are compare_states' verdict.)
C1_ExitCodes ==
    Exited =>
        /\ exit_code \in {0, 1}
        /\ exit_code = 0 =>
               \/ NothingToCompare /\ cand = NoProcess
               \/ CandidateAnswered /\ Verdict
        /\ (CandidateAnswered /\ ~Verdict) => exit_code = 1
        /\ CandidateFailed => exit_code = 1
        /\ ReferenceRaised => exit_code = 1

\* a candidate printed exactly the reference state but exited non-zero, and
\* the CLI ended with 1
C1_Witness ==
    /\ Exited
    /\ cand.st = "exited"
    /\ cand.returncode # 0
    /\ cand.stdout = json_dumps(python_result)
    /\ exit_code = 1

\* C2: for a shipped fixture with no candidate executable the CLI ends with
\* 0 and reports that the comparison was skipped.
C2_MissingCandidateSkips ==
    (Exited /\ workflow \in Fixtures /\ ~binary_exists) =>
        (exit_code = 0 /\ report = "skipped")

\* C8: a candidate that exited non-zero or printed unparsable output is
\* reported as an error, a candidate that answered with a state judged
\* different is reported as "results differ", and no run in which the
\* candidate executable exists is reported as skipped.
C8_FailureCategories ==
    Exited =>
        /\ CandidateFailed => report = "error"
        /\ (CandidateAnswered /\ ~Verdict) => report = "differ"
        /\ report = "differ" => (CandidateAnswered /\ ~Verdict)
        /\ (binary_exists /\ Happened("python ran")) => report # "skipped"

\* a candidate exited non-zero having printed a state that differs from the
\* reference state, and the run was reported as an error
C8_Witness ==
    /\ Exited
    /\ cand.st = "exited"
    /\ cand.returncode # 0
    /\ cand.stdout.wellformed
    /\ cand.stdout.doc.t = "dict"
    /\ ~Verdict
    /\ report = "error"

\* C9: the document on the candidate's input channel is the serialized
\* initial state the reference graph was invoked with.
C9_CandidateGetsInitialState ==
    cand.st # "none" => cand.stdin = json_dumps(py_initial)

HarnessOrder ==
    <<"python ran", "spawned", "candidate exited", "output captured",
      "output parsed", "compare_states called">>

\* C10: the steps of a run happen in the order reference run, spawn,
\* candidate exit, output captured, output parsed, compare_states; the
\* candidate is spawned at most once; compare_states is called only for a
\* candidate that exited with 0 and whose output parsed, and a run whose
\* candidate failed ends as an error without calling it.
C10_DrainedBeforeCompare ==
    /\ \/ IsPrefix(events, HarnessOrder)
       \/ events \in {<<"python ran", "spawn failed">>,
                      <<"python ran", "spawned", "candidate exited",
                        "output captured">>}
    /\ Happened("compare_states called") =>
           /\ cand.st = "exited"
           /\ cand.returncode = 0
           /\ cand.stdout.wellformed
           /\ rust_result = cand.stdout.doc
    /\ (Exited /\ CandidateFailed) =>
           /\ ~Happened("compare_states called")
           /\ report = "error"
           /\ exit_code = 1

\* compare_states was called on the output of a candidate that had exited
C10_Witness ==
    /\ events = HarnessOrder
    /\ Exited
    /\ report = "differ"

\* C11: every run of the CLI ends with an exit code, whatever the candidate
\* process does; a candidate that never exits is timed out and the run ends
\* with 1.
C11_AlwaysTerminates == <>(Exited /\ exit_code \in {0, 1})

(***************************************************************************)
(* Properties of invocations, checked under SpecExec.                      *)
(***************************************************************************)
Invoked == run.st \in {"running", "returned", "failed"}

Ended == run.st \in {"returned", "failed"}

\* how many times the node's transform was called
Executions(node) ==
    Cardinality({i \in 1..Len(run.visited) : run.visited[i] = node})

Initially(key) == Get(run.initial, key)

Finally(key) == Get(run.state, key)

\* C13: an invocation of the linear or the complex-types fixture calls the
\* nodes in registration order, each once, and returns; the linear fixture
\* returns the counter raised by 3 and the messages of A, B and C appended
\* in that order.
C13_LinearExecution ==
    (Invoked /\ workflow \in {"linear_workflow", "complex_types"}) =>
        /\ run.st # "failed"
        /\ IsPrefix(run.visited, Nodes(workflow))
        /\ run.st = "returned" => run.visited = Nodes(workflow)
        /\ (run.st = "returned" /\ workflow = "linear_workflow") =>
               /\ Finally("counter") = AddInt(Initially("counter"), 3)
               /\ Finally("messages").items =
                      Initially("messages").items \o
                          <<Str("Node A executed"), Str("Node B executed"),
                            Str("Node C executed")>>

\* the linear fixture returned from a state whose counter was 5 and whose
\* messages already held an entry
C13_Witness ==
    /\ workflow = "linear_workflow"
    /\ run.st = "returned"
    /\ Initially("counter") = Num(5)
    /\ Len(Initially("messages").items) = 1
    /\ Finally("counter") = Num(8)
    /\ Len(Finally("messages").items) = 4

Threshold == Initially("max_iterations").n

\* C14 as stated: an invocation of the loop fixture with max_iterations = T
\* (T + 1 below the cap) returns after exactly T calls of loop_body, with
\* iteration equal to T.
C14_LoopRunsThresholdTimes ==
    (Ended /\ workflow = "loop_workflow" /\ Threshold >= 0
           /\ Threshold < run.cap) =>
        /\ run.st = "returned"
        /\ Executions("loop_body") = Threshold
        /\ Finally("iteration") = Num(Threshold)

\* the number of calls of loop_body the fixture makes for a threshold: the
\* edge initialize -> loop_body runs the body before the first test
BodyRuns(T) == IF T >= 1 THEN T ELSE 1

\* C14 amended: an invocation of the loop fixture with max_iterations = T
\* >= 1 returns after exactly T calls of loop_body with iteration = T; with
\* T <= 0 it returns after one call with iteration = 1 (the cap being above
\* the number of calls).
C14_LoopRunsAtLeastOnce ==
    (Ended /\ workflow = "loop_workflow" /\ BodyRuns(Threshold) < run.cap) =>
        /\ run.st = "returned"
        /\ Executions("loop_body") = BodyRuns(Threshold)
        /\ Finally("iteration") = Num(BodyRuns(Threshold))
        /\ run.visited[1] = "initialize"
        /\ Last(run.visited) = "finalize"
        /\ Len(run.visited) = BodyRuns(Threshold) + 2

\* the loop fixture returned after 5 calls of loop_body, having started from
\* a state whose iteration field was 3
C14_Witness ==
    /\ workflow = "loop_workflow"
    /\ run.st = "returned"
    /\ Threshold = 5
    /\ Initially("iteration") = Num(3)
    /\ Executions("loop_body") = 5
    /\ Finally("iteration") = Num(5)

\* the branch the multi-path fixture is to take for an input value
BranchFor(v) == IF v < 33 THEN "path_a" ELSE IF v < 66 THEN "path_b" ELSE "path_c"

\* what that branch writes to its own field
Contribution(v) ==
    IF v < 33 THEN v * 2 ELSE IF v < 66 THEN v + 100 ELSE v * v

BranchFieldsZero(state) ==
    \A k \in {"path_a_result", "path_b_result", "path_c_result"} :
        Get(state, k) = Num(0)

\* C15: an invocation of the multi-path fixture that starts with the three
\* branch fields at 0 calls start, then the one branch its input value
\* selects, then merge, and returns; the fields of the other two branches
\* are 0 and final_result is the selected branch's contribution.
C15_BranchExclusivity ==
    (Invoked /\ workflow = "multi_path_workflow"
             /\ BranchFieldsZero(run.initial)) =>
        LET v == Initially("input_value").n
            path == <<"start", BranchFor(v), "merge">>
        IN /\ run.st # "failed"
           /\ IsPrefix(run.visited, path)
           /\ run.st = "returned" =>
                  /\ run.visited = path
                  /\ \A b \in {"path_a", "path_b", "path_c"} :
                         /\ Executions(b) = IF b = BranchFor(v) THEN 1 ELSE 0
                         /\ b # BranchFor(v) =>
                                Get(run.state, b \o "_result") = Num(0)
                  /\ Get(run.state, BranchFor(v) \o "_result")
                         = Num(Contribution(v))
                  /\ Finally("final_result") = Num(Contribution(v))

\* input 33 took path_b alone and the merge result is 133
C15_Witness ==
    /\ workflow = "multi_path_workflow"
    /\ run.st = "returned"
    /\ BranchFieldsZero(run.initial)
    /\ Initially("input_value") = Num(33)
    /\ run.visited = <<"start", "path_b", "merge">>
    /\ Finally("final_result") = Num(133)

\* C16: an invocation of the loop fixture whose threshold is not below the
\* cap fails with IterationLimitExceeded after cap + 1 node executions and
\* returns no state; no invocation of any graph runs on beyond that.
C16_IterationLimitExceeded ==
    /\ Invoked => Len(run.visited) <= run.cap + 1
    /\ (Invoked /\ run.exc = "IterationLimitExceeded") =>
           /\ run.st = "failed"
           /\ run.state = Undef
           /\ run.steps > run.cap
    /\ (Ended /\ workflow = "loop_workflow" /\ Threshold >= run.cap) =>
           /\ run.st = "failed"
           /\ run.exc = "IterationLimitExceeded"
           /\ run.state = Undef
           /\ Len(run.visited) = run.cap + 1

\* a loop invocation with threshold 12 under the cap 10 failed
C16_Witness ==
    /\ workflow = "loop_workflow"
    /\ run.st = "failed"
    /\ run.cap = SmallCap
    /\ Threshold = 12
    /\ run.exc = "IterationLimitExceeded"
    /\ Executions("loop_body") = SmallCap

\* C17: no invocation, returned or failed, calls more node transforms than
\* the configured cap.
C17_CapBoundsExecutions == Invoked => Len(run.visited) <= run.cap

\* C18: every shipped graph, fixture or example, is structurally valid when
\* its module compiles it: its node names are unique, every edge source, edge
\* target and conditional-edge source and target is a registered node or END,
\* its entry point is a registered node, and no node has both an edge and a
\* conditional edge; compile() raises no StructuralError.
C18_GraphsCompile ==
    pc # "compile" =>
        /\ run.st # "structural_error"
        /\ Cardinality(Range(Nodes(workflow))) = Len(Nodes(workflow))
        /\ {e[1] : e \in Edges(workflow)} \cup {t[1] : t \in Targets(workflow)}
               \subseteq Range(Nodes(workflow))
        /\ {e[2] : e \in Edges(workflow)} \cup {t[3] : t \in Targets(workflow)}
               \subseteq Range(Nodes(workflow)) \cup {END}
        /\ EntryPoint(workflow) \in Range(Nodes(workflow))
        /\ {e[1] : e \in Edges(workflow)} \cap {t[1] : t \in Targets(workflow)}
               = {}

\* the recommendation engine, whose two strategy nodes share one routing
\* function, has been compiled and is ready to be invoked
C18_Witness ==
    /\ pc = "invoke"
    /\ run.st = "compiled"
    /\ workflow = "recommendation_engine"

(***************************************************************************)
(* Properties of the conditional edges, checked under SpecExec.            *)
(***************************************************************************)
\* the node whose transform was called last
LastNode == Last(run.visited)

\* the last transform returned and a routing function was then evaluated
Routed ==
    /\ Invoked
    /\ run.steps > 0
    /\ Len(run.visited) = run.steps
    /\ \E t \in Targets(workflow) : t[1] = LastNode

\* what that routing function made of the state the transform returned
LastRoute == RouterFn(workflow, LastNode, run.transformed)

\* C19: in every shipped graph a routing function returns, in every state
\* reachable at its node, only a label that is a key of its conditional
\* edge's mapping, so no invocation fails with RoutingError; the chatbot's
\* route_after_intent never returns "unknown" and simple_workflow's
\* route_next returns only "process" or "end".
C19_LabelsAreMapped ==
    /\ Invoked => run.exc # "RoutingError"
    /\ (Routed /\ ~LastRoute.raised) =>
           /\ \E t \in Targets(workflow) :
                  t[1] = LastNode /\ t[2] = LastRoute.label
           /\ (workflow = "chatbot_with_fallback" /\ LastNode = "detect_intent")
                  => LastRoute.label # "unknown"
           /\ workflow = "simple_workflow"
                  => LastRoute.label \in {"process", "end"}

\* the chatbot detected no intent and the router sent the run to the fallback
C19_Witness ==
    /\ Routed
    /\ workflow = "chatbot_with_fallback"
    /\ LastNode = "detect_intent"
    /\ Get(run.transformed, "intent") = Str("unknown")
    /\ LastRoute.label = "fallback"
    /\ run.current = "fallback"

\* C20: evaluating a conditional edge's routing function only inspects the
\* state: the state handed to the next node, or returned at END, equals the
\* state the source node's transform returned.
C20_RoutersOnlyInspect ==
    (Routed /\ run.st # "failed") => run.state = run.transformed

(***************************************************************************)
(* Further properties of compare_states, checked under SpecCmp.            *)
(***************************************************************************)
\* field k is a boolean in one state and a number in the other
BoolAgainstNumber(k) ==
    \/ Get(python_result, k).t = "bool" /\ Get(rust_result, k).t = "num"
    \/ Get(python_result, k).t = "num" /\ Get(rust_result, k).t = "bool"

\* C24: compare_states never judges a boolean equal to a number and never
\* applies the tolerance to a boolean field: a field that is boolean in one
\* state and a number in the other is reported as a mismatch.
C24_BooleanIsNotANumber ==
    CmpDone =>
        \A k \in Range(cmp.examined) : BoolAgainstNumber(k) => ~JudgedEqual(k)

\* the verdict of the call with the two states exchanged
Exchanged == compare_states(rust_result, python_result, Tolerance)

\* C25: the verdict of compare_states is reflexive and symmetric:
\* compare_states(s, s) is True and compare_states(s, t) = compare_states(t, s).
C25_ReflexiveAndSymmetric ==
    CmpDone =>
        /\ python_result = rust_result => cmp.ok
        /\ cmp.ok = Exchanged.ok

\* two states that differ in a value were judged equal, and are judged equal
\* the other way round
C25_Witness ==
    /\ CmpDone
    /\ KeySet(python_result) = KeySet(rust_result)
    /\ \E k \in KeySet(python_result) :
           Get(python_result, k) # Get(rust_result, k)
    /\ cmp.ok
    /\ Exchanged.ok

(***************************************************************************)
(* Properties of two invocations in one process, checked under SpecPair.   *)
(***************************************************************************)
BothEnded == pc = "pair_loop" /\ Ended /\ run2.st \in {"returned", "failed"}

\* C21: every node transform is a function of its input state alone, so two
\* invocations of the same graph from equal initial states visit the same
\* node sequence and end in equal final states.
C21_EqualStatesEqualRuns ==
    (BothEnded /\ run.initial = run2.initial) =>
        /\ run.st = run2.st
        /\ run.visited = run2.visited
        /\ run.state = run2.state

\* the invocation ended as it ends with the process to itself
AsAlone(r) ==
    LET alone == Alone(r)
    IN /\ r.st = alone.st
       /\ r.visited = alone.visited
       /\ r.state = alone.state
       /\ r.exc = alone.exc

\* C23: invocations of one compiled graph do not interfere: run back to
\* back or interleaved step by step, each visits the nodes and returns the
\* final state it does when run alone.
C23_InvocationsDoNotInterfere ==
    BothEnded => AsAlone(run) /\ AsAlone(run2)

(***************************************************************************)
(* Properties of the example workflows, checked under SpecExec.            *)
(***************************************************************************)
\* the transform called last raised instead of returning a state
TransformRaised ==
    /\ run.st = "failed"
    /\ Len(run.visited) = run.steps + 1

\* C22: no node transform fails on a state reachable in its graph from a
\* well-typed initial state; in the data validation pipeline enrich_data
\* returns a state for every record route_after_validation sends on to it,
\* a product record whose price is not a number included.
C22_TransformsAreTotal ==
    (Invoked /\ workflow \in Examples) => ~TransformRaised

(***************************************************************************)
(* Properties of the conditional fixture, checked under SpecExec.          *)
(***************************************************************************)

Conditional == workflow = "conditional_workflow"

\* the visits of 'low' an initial value v needs: 0 from 50 on, otherwise
\* ceil((50 - v) / 10)
LowVisits(v) == IF v >= 50 THEN 0 ELSE (50 - v + 9) \div 10

NodeExecutions == 2 * LowVisits(Initially("value").n) + 3

\* C26 as stated: the conditional fixture reaches END for every integer
\* initial value v and either should_continue flag, after exactly 2k + 3
\* node executions, k of them visits of 'low'.
C26_ReachesEndAlways ==
    (Ended /\ Conditional) =>
        /\ run.st = "returned"
        /\ Len(run.visited) = NodeExecutions

\* C26 amended: an invocation of the conditional fixture that returns has
\* executed exactly 2k + 3 nodes, k of them 'low' and each 'low' followed
\* by 'start'; it returns whenever 2k + 3 is within the iteration cap, and
\* otherwise fails only with IterationLimitExceeded.
C26_ReachesEndWithinCap ==
    (Ended /\ Conditional) =>
        /\ run.st = "returned" =>
               /\ Len(run.visited) = NodeExecutions
               /\ Executions("low") = LowVisits(Initially("value").n)
               /\ \A i \in 1..Len(run.visited) :
                      run.visited[i] = "low" =>
                          /\ i < Len(run.visited)
                          /\ run.visited[i + 1] = "start"
        /\ NodeExecutions <= run.cap => run.st = "returned"
        /\ run.st = "failed" =>
               /\ run.exc = "IterationLimitExceeded"
               /\ NodeExecutions > run.cap

C26_Witness ==
    /\ Conditional
    /\ run.st = "returned"
    /\ Initially("value") = Num(0)
    /\ Executions("low") = 5
    /\ Len(run.visited) = 13

\* the names of the nodes called, as path_taken entries
VisitedEntries == [i \in 1..Len(run.visited) |-> Str(run.visited[i])]

\* the final state of a run of the conditional fixture, as C27 describes it
HighThenEnd ==
    /\ run.st = "returned"
    /\ Executions("high") = 1
    /\ Executions("end") = 1
    /\ Len(run.visited) >= 2
    /\ run.visited[Len(run.visited) - 1] = "high"
    /\ LastNode = "end"
    /\ ~LessThan(Finally("value"), Num(100))
    /\ Finally("should_continue") = Bool(FALSE)
    /\ Finally("path_taken") =
           List(Initially("path_taken").items \o VisitedEntries)

\* 'low' has never been followed by 'end', and its router has not returned
\* 'end'
LowNeverEnds ==
    /\ \A i \in 1..(Len(run.visited) - 1) :
           run.visited[i] = "low" => run.visited[i + 1] # "end"
    /\ (Routed /\ LastNode = "low") => LastRoute.label # "end"

\* C27 as stated: in every invocation of the conditional fixture
\* process_high executes exactly once, as the last node before end_node,
\* process_low never routes to 'end', and the final state has value >= 100,
\* should_continue False and the entries appended to path_taken end with
\* 'high', 'end', with 'end' appended once.
C27_HighExactlyOnce ==
    (Ended /\ Conditional) => HighThenEnd /\ LowNeverEnds

\* C27 amended: in every invocation of the conditional fixture process_high
\* executes at most once and only end_node follows it, and process_low
\* never routes to 'end'; an invocation that returns has executed
\* process_high exactly once, as the last node before end_node, and its
\* final state is as C27 describes it.
C27_HighOnceBeforeEnd ==
    (Invoked /\ Conditional) =>
        /\ Executions("high") <= 1
        /\ \A i \in 1..(Len(run.visited) - 1) :
               run.visited[i] = "high" => run.visited[i + 1] = "end"
        /\ LowNeverEnds
        /\ run.st = "returned" => HighThenEnd

C27_Witness ==
    /\ Conditional
    /\ HighThenEnd
    /\ Executions("low") >= 1
    /\ Initially("path_taken") = List(<<Str("end")>>)
    /\ Initially("should_continue") = Bool(FALSE)

(***************************************************************************)
(* Properties of the API router, checked under SpecExec.                   *)
(***************************************************************************)

APIRouter == workflow = "api_router_with_retry"

RetryNext == run.st = "running" /\ run.current = "retry"

ExhaustedAtCircuitCheck ==
    /\ Routed
    /\ LastNode = "check_circuit"
    /\ AtMost(Get(run.transformed, "max_retries"),
              Get(run.transformed, "retry_count"))

\* C30: the fallback node is never executed and use_fallback keeps its
\* initial value; route_after_circuit_check evaluated with retry_count >=
\* max_retries finds circuit_open set and returns 'error'.
C30_FallbackIsNeverTaken ==
    (Invoked /\ APIRouter) =>
        /\ Executions("fallback") = 0
        /\ run.current # "fallback"
        /\ run.st # "failed" =>
               Get(run.state, "use_fallback") = Initially("use_fallback")
        /\ ExhaustedAtCircuitCheck =>
               /\ Get(run.transformed, "circuit_open") = Bool(TRUE)
               /\ LastRoute.label = "error"

\* check_circuit_breaker opened the circuit of a run started with it closed
C30_Witness ==
    /\ APIRouter
    /\ ExhaustedAtCircuitCheck
    /\ Initially("circuit_open") = Bool(FALSE)
    /\ Get(run.transformed, "circuit_open") = Bool(TRUE)
    /\ run.current = "error"

\* the request went to no known service and check_cache did not serve it
UnknownUncached ==
    /\ run.st = "returned"
    /\ Finally("target_service") = Str("unknown")
    /\ ~Truthy(Finally("use_cache"))

\* C31: a request of the API router whose path matches no known service and
\* that is not served from cache never ends with response_status 200.
C31_UnknownServiceNeverSucceeds ==
    (APIRouter /\ UnknownUncached) => Finally("response_status") # Num(200)

(***************************************************************************)
(* Properties of the other example workflows, checked under SpecExec.      *)
(***************************************************************************)

Documents == workflow = "document_processing"

\* the invocation was stopped by the iteration cap and by nothing else
StoppedByCap ==
    /\ run.exc = "IterationLimitExceeded"
    /\ Len(run.visited) > run.cap

\* validation errors are left in the state returned
ErrorsRemain == Len(Finally("validation_errors").items) > 0

\* C32: in the document pipeline started with retry_count = 0 the retry node
\* runs at most twice and validate at most three times, and the invocation
\* reaches END through finalize (its 16 node executions at most fitting the
\* iteration cap), also when validation errors remain.
C32_RetriesAreBounded ==
    (Invoked /\ Documents /\ Initially("retry_count") = Num(0)) =>
        /\ Executions("retry") <= 2
        /\ Executions("validate") <= 3
        /\ run.st = "returned" => LastNode = "finalize"
        /\ run.st = "failed" => StoppedByCap
        /\ Len(run.visited) <= 16
        /\ run.cap >= 16 => run.st # "failed"

\* the router gave up after the second retry with errors left
C32_Witness ==
    /\ Documents
    /\ run.st = "returned"
    /\ Initially("retry_count") = Num(0)
    /\ Executions("retry") = 2
    /\ Executions("validate") = 3
    /\ LastNode = "finalize"
    /\ ErrorsRemain

\* C33: a final state of the document pipeline with processed = True has an
\* empty validation_errors list; a document that still fails validation
\* when the retries are used up ends with processed = False.
C33_ProcessedMeansValid ==
    (Documents /\ run.st = "returned") =>
        (Truthy(Finally("processed")) => ~ErrorsRemain)

Orders == workflow = "order_fulfillment"

\* the order in `state` passed validation, the inventory check and payment
PassedEveryGate(state) ==
    /\ \A i \in 1..Len(Get(state, "notes").items) :
           ~StartsWith(Get(state, "notes").items[i].s, "ERROR:")
    /\ Get(state, "inventory_available") = Bool(TRUE)
    /\ Get(state, "payment_status") = Str("captured")

\* the shipment node is about to run, or has run in this invocation
AtOrAfterShipment ==
    /\ run.st \in {"running", "returned"}
    /\ \/ run.current = "shipment"
       \/ Executions("shipment") > 0

Chatbot == workflow = "chatbot_with_fallback"

\* the last node called left a state on which the fallback is due:
\* detect_intent a confidence below 0.5, a question or command handler an
\* empty response
FallbackDue ==
    /\ Routed
    /\ \/ /\ LastNode = "detect_intent"
          /\ LessThan(Get(run.transformed, "confidence"), Tenths(5))
       \/ /\ LastNode \in {"question", "command"}
          /\ ~Truthy(Get(run.transformed, "response"))

\* C35: an invocation of the chatbot returns a non-empty response; the
\* fallback node runs next exactly when the detected confidence is below
\* 0.5 or a question or command handler left the response empty, it runs at
\* most once, and (fallback_triggered being False initially) the final
\* fallback_triggered is True exactly when it ran.
C35_ResponseIsNeverEmpty ==
    (Invoked /\ Chatbot) =>
        /\ Executions("fallback") <= 1
        /\ run.st = "running" /\ run.steps > 0 =>
               (run.current = "fallback" <=> FallbackDue)
        /\ run.st # "failed"
        /\ run.st = "returned" =>
               /\ Truthy(Finally("response"))
               /\ LastNode # "fallback" => ~FallbackDue
               /\ Initially("fallback_triggered") = Bool(FALSE) =>
                      (Finally("fallback_triggered") = Bool(TRUE)
                           <=> Executions("fallback") = 1)

\* a handler left the response empty and the fallback filled it
C35_Witness ==
    /\ Chatbot
    /\ run.st = "returned"
    /\ Executions("command") = 1
    /\ Executions("fallback") = 1
    /\ Finally("fallback_triggered") = Bool(TRUE)
    /\ Truthy(Finally("response"))
    /\ Finally("confidence") = Tenths(4)

Support == workflow = "customer_support_agent"

\* the place of a node of the support graph in the order analyze, tier1,
\* tier2, escalate
Tier(node) ==
    CASE node = "analyze" -> 0
      [] node = "tier1" -> 1
      [] node = "tier2" -> 2
      [] node = "escalate" -> 3

\* C36: an invocation of the support workflow returns with resolved True
\* and a non-empty response; the tiers are called in the order tier1, tier2,
\* escalate, each at most once; a ticket tier2 leaves unresolved goes to
\* escalate; and (escalated being False initially) the final escalated is
\* True exactly when escalate ran.
C36_EveryTicketIsResolved ==
    (Invoked /\ Support) =>
        /\ \A i, j \in 1..Len(run.visited) :
               i < j => Tier(run.visited[i]) < Tier(run.visited[j])
        /\ (Routed /\ LastNode = "tier2"
                /\ ~Truthy(Get(run.transformed, "resolved"))) =>
               run.st = "running" /\ run.current = "escalate"
        /\ run.st # "failed"
        /\ run.st = "returned" =>
               /\ Finally("resolved") = Bool(TRUE)
               /\ Truthy(Finally("response"))
               /\ Initially("escalated") = Bool(FALSE) =>
                      (Finally("escalated") = Bool(TRUE)
                           <=> Executions("escalate") = 1)

\* a ticket went through all three tiers
C36_Witness ==
    /\ Support
    /\ run.st = "returned"
    /\ run.visited = <<"analyze", "tier1", "tier2", "escalate">>
    /\ Initially("resolved") = Bool(TRUE)
    /\ Finally("escalated") = Bool(TRUE)

Moderation == workflow = "content_moderation"

\* C37: in the content moderation workflow human_review executes exactly
\* when auto_decision is 'review'; content of severity 'safe' ends with
\* final_decision 'approve' and content of severity 'dangerous' with
\* 'reject', neither passing through human_review.
C37_ReviewFollowsAutoDecision ==
    (Moderation /\ run.st = "returned") =>
        /\ Executions("human_review") > 0
               <=> Finally("auto_decision") = Str("review")
        /\ Finally("severity") = Str("safe") =>
               /\ Finally("final_decision") = Str("approve")
               /\ Executions("human_review") = 0
        /\ Finally("severity") = Str("dangerous") =>
               /\ Finally("final_decision") = Str("reject")
               /\ Executions("human_review") = 0

DataValidation == workflow = "data_validation_enrichment"

\* validate_schema has just returned and route_after_validation was
\* evaluated
Validated == Routed /\ LastNode = "validate"

\* C38: validate_schema never leaves more than 2 validation errors, so
\* route_after_validation always returns 'enrich': no invocation of the
\* data validation pipeline ends at validate, and each calls enrich.
C38_RejectionIsNeverTaken ==
    (Invoked /\ DataValidation) =>
        /\ Validated =>
               /\ Len(Get(run.transformed, "validation_errors").items) <= 2
               /\ LastRoute.label = "enrich"
               /\ run.st = "running"
               /\ run.current = "enrich"
        /\ Ended => Executions("enrich") = 1 /\ LastNode # "validate"

\* a record with two validation errors went on to enrich
C38_Witness ==
    /\ DataValidation
    /\ run.st = "returned"
    /\ Len(Finally("validation_errors").items) = 2
    /\ Executions("enrich") = 1

Recommendations == workflow = "recommendation_engine"

\* every recommendation of the final state is one of trending_items
OnlyTrending ==
    \A i \in 1..Len(Finally("recommendations").items) :
        StartsWith(Get(Finally("recommendations").items[i], "product_id").s,
                   "trending_")

\* C39: the content_based node of the recommendation engine is never
\* executed; a user with a non-empty user_id goes profile, collaborative,
\* rank and ends with strategy 'collaborative', a user with an empty
\* user_id goes profile, contextual, trending, rank and ends with
\* 'trending' and none of the contextual node's recommendations.
C39_ContentBasedIsNeverTaken ==
    (Invoked /\ Recommendations) =>
        /\ Executions("content_based") = 0
        /\ run.current # "content_based"
        /\ run.st # "failed"
        /\ run.st = "returned" =>
               IF Truthy(Initially("user_id"))
               THEN /\ run.visited = <<"profile", "collaborative", "rank">>
                    /\ Finally("recommendation_strategy") =
                           Str("collaborative")
               ELSE /\ run.visited =
                           <<"profile", "contextual", "trending", "rank">>
                    /\ Finally("recommendation_strategy") = Str("trending")
                    /\ OnlyTrending

\* an anonymous user with a category context ended with trending items
C39_Witness ==
    /\ Recommendations
    /\ run.st = "returned"
    /\ Initially("user_id") = Str("")
    /\ Has(Initially("context"), "category")
    /\ Executions("contextual") = 1
    /\ Len(Finally("recommendations").items) = 5
    /\ OnlyTrending

====
